---------------------------- MODULE Spec2Model ----------------------------
(***************************************************************************)
(* A model of the gcn_agg accelerator simulator: the pipeline scheduler    *)
(* (System), its four double buffers, the three compute units, the memory  *)
(* interface with the DRAM oracle behind it, and the two-level window      *)
(* iterator.                                                               *)
(*                                                                         *)
(* Option<T> values are sequences of length 0 (None) or 1 (Some(x)).       *)
(* Nodes are numbered from 0 as in the source; the per-node tuples of a    *)
(* scenario are indexed with node + 1.                                     *)
(***************************************************************************)
EXTENDS Integers, Sequences, FiniteSets, TLC

VARIABLES
    sc,               \* the inputs of the run: graph, node features, settings
    state,            \* System.state
    finished,         \* System.finished
    pc,               \* position inside System::cycle
    aborted,          \* "none", or the panic that ended the run
    input_buffer,     \* InputBuffer
    agg_buffer,       \* AggBuffer
    sparsify_buffer,  \* SparsifyBuffer
    output_buffer,    \* OutputBuffer
    aggregator,       \* Aggregator
    mlp,              \* Mlp
    sparsifier,       \* Sparsifier
    mem_interface,    \* MemInterface without its oracle
    mem,              \* the DRAM oracle (RamulatorWrapper)
    iter,             \* current_layer, current_output_iter, current_input_iter, current_window
    watchdog,         \* possible_deadloack_count, deadlock_count
    hist              \* history of the run, read by the properties only

vars == << sc, state, finished, pc, aborted, input_buffer, agg_buffer,
           sparsify_buffer, output_buffer, aggregator, mlp, sparsifier,
           mem_interface, mem, iter, watchdog, hist >>

-----------------------------------------------------------------------------
(* Bounds of the model *)

\* the number of cycles in which the oracle may refuse an address or hold
\* back a line it could return; after that it accepts and returns at once
MaxStall == 2

\* stands for the 200000 idle cycles of one watchdog episode (system.rs:131)
DeadlockCycles == 13

\* stands for the 10 episodes after which the watchdog panics (system.rs:143)
DeadlockEpisodes == 2

\* the number of send calls of the stand-alone memory interface run
MaxSend == 3

\* the queue capacities of the stand-alone memory interface run
TestSendSize == 2

TestRecvSize == 2

-----------------------------------------------------------------------------
(* Program constants *)

LineSize == 64

FeatureBytes == 4

SendSize == 64

RecvSize == 64

SparsifyCycles == 10

SparsifyCyclesLastLayer == 1

-----------------------------------------------------------------------------
(* Option *)

None == << >>

Some(x) == << x >>

IsSome(o) == Len(o) = 1

Unwrap(o) == o[1]

Min(a, b) == IF a < b THEN a ELSE b

Max(a, b) == IF a < b THEN b ELSE a

-----------------------------------------------------------------------------
(* The inputs: graphs, per-layer node features and accelerator settings.   *)
(* csc[j+1] is the set of in-neighbours of node j, features[l+1][i+1] the  *)
(* set of non-zero feature indices of node i in layer l.                   *)

\* two nodes, two layers, one row per input window: node 0 has two input
\* windows per layer, node 1 one
ScTwoLayer ==
    [ name |-> "two_layer", num_node |-> 2, feature_size |-> 2,
      csc |-> << {0, 1}, {0} >>,
      features |-> << << {0}, {1} >>, << {0}, {0} >> >>,
      gcn_hidden_size |-> << 1 >>,
      agg_buffer_size |-> 16, input_buffer_size |-> 8,
      running_mode |-> "Sparse",
      sparse_cores |-> 1, dense_cores |-> 1, dense_width |-> 1,
      systolic_rows |-> 2, systolic_cols |-> 2, mlp_sparse_cores |-> 2 ]

\* one dense layer whose only input window spans two cache lines
ScDense ==
    [ name |-> "dense", num_node |-> 2, feature_size |-> 9,
      csc |-> << {0, 1}, {0} >>,
      features |-> << << {0}, {1} >> >>,
      gcn_hidden_size |-> << >>,
      agg_buffer_size |-> 144, input_buffer_size |-> 16,
      running_mode |-> "Dense",
      sparse_cores |-> 1, dense_cores |-> 3, dense_width |-> 3,
      systolic_rows |-> 2, systolic_cols |-> 2, mlp_sparse_cores |-> 2 ]

\* one sparse layer in which the only input row, node 0, has no non-zero
\* feature
ScEmptyRow ==
    [ name |-> "empty_row", num_node |-> 2, feature_size |-> 2,
      csc |-> << {0}, {0} >>,
      features |-> << << {}, {0} >> >>,
      gcn_hidden_size |-> << >>,
      agg_buffer_size |-> 32, input_buffer_size |-> 8,
      running_mode |-> "Sparse",
      sparse_cores |-> 1, dense_cores |-> 1, dense_width |-> 1,
      systolic_rows |-> 2, systolic_cols |-> 2, mlp_sparse_cores |-> 2 ]

\* one dense layer in which row 0 has no edge, so that the only input window
\* starts at row 1, byte 1 * 9 * 4 = 36 of the dense feature matrix
ScDenseSkippedRow ==
    [ name |-> "dense_skipped_row", num_node |-> 2, feature_size |-> 9,
      csc |-> << {1}, {1} >>,
      features |-> << << {0}, {1} >> >>,
      gcn_hidden_size |-> << >>,
      agg_buffer_size |-> 144, input_buffer_size |-> 16,
      running_mode |-> "Dense",
      sparse_cores |-> 1, dense_cores |-> 3, dense_width |-> 3,
      systolic_rows |-> 2, systolic_cols |-> 2, mlp_sparse_cores |-> 2 ]

\* one dense layer with two input windows of one row each, every row one
\* cache line of the dense feature matrix: the second window is loaded from the
\* input buffer's next slot
ScDenseTwoWindows ==
    [ name |-> "dense_two_windows", num_node |-> 2, feature_size |-> 16,
      csc |-> << {0, 1}, {0} >>,
      features |-> << << {0}, {1} >> >>,
      gcn_hidden_size |-> << >>,
      agg_buffer_size |-> 256, input_buffer_size |-> 8,
      running_mode |-> "Dense",
      sparse_cores |-> 1, dense_cores |-> 1, dense_width |-> 1,
      systolic_rows |-> 2, systolic_cols |-> 2, mlp_sparse_cores |-> 2 ]

Scenarios == { ScTwoLayer, ScDense, ScEmptyRow, ScDenseSkippedRow, ScDenseTwoWindows }

-----------------------------------------------------------------------------
(* Graph and NodeFeatures *)

get_num_node(s) == s.num_node

get_features(s, layer, i) == s.features[layer + 1][i + 1]

\* Graph::is_row_range_empty: csr[i] has no element in [start, end)
is_row_range_empty(s, i, start, end) ==
    \A j \in start .. (end - 1) : i \notin s.csc[j + 1]

\* NodeFeatures::new: start_addrs[i], the byte offset of node i's features
RECURSIVE start_addrs(_, _, _)
start_addrs(s, layer, i) ==
    IF i = 0 THEN 0
    ELSE start_addrs(s, layer, i - 1)
         + Cardinality(get_features(s, layer, i - 1)) * FeatureBytes

gcn_layer_num(s) == Len(s.features)

-----------------------------------------------------------------------------
(* The window iterators *)

WindowId(layer, out, in) == [ layer_id |-> layer, output_id |-> out, input_id |-> in ]

\* OutputWindowIterator::new
OutputWindowIterator_new(layer, final_layer) ==
    [ task_id |-> WindowId(layer, 0, 0),
      current_start_output_index |-> 0,
      final_layer |-> final_layer ]

\* InputWindowIterator::new
InputWindowIterator_new(task_id, start_output, end_output, final_iter, final_layer) ==
    [ task_id |-> task_id,
      start_output_index |-> start_output,
      end_output_index |-> end_output,
      current_window_start_input_index |-> 0,
      current_window_end_input_index |-> 0,
      final_iter |-> final_iter,
      final_layer |-> final_layer ]

\* the number of output nodes of one tile
output_size(s, layer) ==
    IF layer = 0
    THEN (s.agg_buffer_size \div 2) \div (s.feature_size * 4)
    ELSE s.gcn_hidden_size[layer]

\* an output iterator that does not number its windows
OutputWindowIterator_next_same_output_id(s, it) ==
    IF it.current_start_output_index >= get_num_node(s)
    THEN [ kind |-> "None", it |-> it, item |-> None ]
    ELSE IF output_size(s, it.task_id.layer_id) = 0
    THEN [ kind |-> "Panic", it |-> it, item |-> None ]
    ELSE
      LET end_output_index ==
              Min(it.current_start_output_index + output_size(s, it.task_id.layer_id),
                  get_num_node(s))
          final_iter == end_output_index >= get_num_node(s)
      IN [ kind |-> "Some",
           it |-> [ it EXCEPT !.current_start_output_index = end_output_index ],
           item |-> Some(InputWindowIterator_new(it.task_id,
                             it.current_start_output_index, end_output_index,
                             final_iter, it.final_layer)) ]

\* OutputWindowIterator::next: [kind, it (the advanced iterator), item]
OutputWindowIterator_next(s, it) ==
    IF it.current_start_output_index >= get_num_node(s)
    THEN [ kind |-> "None", it |-> it, item |-> None ]
    ELSE IF output_size(s, it.task_id.layer_id) = 0
    THEN [ kind |-> "Panic", it |-> it, item |-> None ]
    ELSE
      LET end_output_index ==
              Min(it.current_start_output_index + output_size(s, it.task_id.layer_id),
                  get_num_node(s))
          final_iter == end_output_index >= get_num_node(s)
      IN [ kind |-> "Some",
           it |-> [ it EXCEPT !.task_id.output_id = @ + 1,
                              !.current_start_output_index = end_output_index ],
           item |-> Some(InputWindowIterator_new(it.task_id,
                             it.current_start_output_index, end_output_index,
                             final_iter, it.final_layer)) ]

\* the first row at or after i whose projection on the output range is not
\* empty, or the number of nodes
RECURSIVE SkipEmptyRows(_, _, _, _)
SkipEmptyRows(s, i, start, end) ==
    IF i < get_num_node(s) /\ is_row_range_empty(s, i, start, end)
    THEN SkipEmptyRows(s, i + 1, start, end)
    ELSE i

\* an accumulation that takes every row left, whatever its size
RECURSIVE Accumulate_without_limit(_, _, _, _, _)
Accumulate_without_limit(s, layer, start, x_size, x_len) == get_num_node(s) - start

\* the number of rows from `start` on that fit in half the input buffer
RECURSIVE Accumulate(_, _, _, _, _)
Accumulate(s, layer, start, x_size, x_len) ==
    IF x_size < s.input_buffer_size \div 2 /\ start + x_len < get_num_node(s)
    THEN LET new_size == Cardinality(get_features(s, layer, start + x_len)) * 4
         IN IF x_size + new_size > s.input_buffer_size \div 2
            THEN x_len
            ELSE Accumulate(s, layer, start, x_size + new_size, x_len + 1)
    ELSE x_len

\* the end of the window once the empty rows at its end are dropped
RECURSIVE Shrink(_, _, _, _)
Shrink(s, end_input, start, end) ==
    IF is_row_range_empty(s, end_input - 1, start, end)
    THEN Shrink(s, end_input - 1, start, end)
    ELSE end_input

OutputWindow_new(start, end, task_id, out_dim, in_dim, final_window, final_layer) ==
    [ start_output_index |-> start,
      end_output_index |-> end,
      task_id |-> task_id,
      output_node_dim |-> out_dim,
      input_node_dim |-> in_dim,
      final_window |-> final_window,
      final_layer |-> final_layer ]

\* InputWindowIterator::next: [kind, it (the advanced iterator), item]
InputWindowIterator_next(s, it) ==
    LET n == get_num_node(s)
        so == it.start_output_index
        eo == it.end_output_index
        layer == it.task_id.layer_id
        start == SkipEmptyRows(s, it.current_window_start_input_index, so, eo)
        skipped == [ it EXCEPT !.current_window_start_input_index = start ]
    IN
    IF it.current_window_start_input_index >= n
    THEN [ kind |-> "None", it |-> it, item |-> None ]
    ELSE IF start = n
    THEN [ kind |-> "None", it |-> skipped, item |-> None ]
    ELSE
      LET x_len == Accumulate(s, layer, start, 0, 0) IN
      IF x_len = 0
      THEN [ kind |-> "Panic", it |-> skipped, item |-> None ]
      ELSE
        LET end_input == Shrink(s, start + x_len, so, eo)
            next_start_row == SkipEmptyRows(s, start + x_len, so, eo)
            is_last_row == ~ (next_start_row < n)
            input_node_dim ==
                IF layer = 0 THEN s.feature_size ELSE s.gcn_hidden_size[layer]
            output_node_dim ==
                IF it.final_layer THEN 1 ELSE s.gcn_hidden_size[layer + 1]
        IN [ kind |-> "Some",
             it |-> [ it EXCEPT !.current_window_start_input_index = next_start_row,
                                !.current_window_end_input_index = end_input,
                                !.task_id.input_id = @ + 1 ],
             item |-> Some(
                 [ task_id |-> it.task_id,
                   start_output_index |-> so,
                   start_input_index |-> start,
                   end_output_index |-> eo,
                   end_input_index |-> end_input,
                   output_window |->
                       OutputWindow_new(so, eo, it.task_id, output_node_dim,
                                        input_node_dim, it.final_iter, it.final_layer),
                   is_last_row |-> is_last_row ]) ]

-----------------------------------------------------------------------------
(* Maps (HashMap) as functions with a finite domain *)

EmptyMap == [ k \in {} |-> {} ]

MapPut(m, k, v) == [ x \in DOMAIN m \cup {k} |-> IF x = k THEN v ELSE m[x] ]

MapRemove(m, k) == [ x \in DOMAIN m \ {k} |-> m[x] ]

\* an insert that forgets what the key held before
MapInsert_replaces(m, k, v) == MapPut(m, k, {v})

\* entry(k).or_insert(HashSet::new()).insert(v)
MapInsert(m, k, v) == MapPut(m, k, (IF k \in DOMAIN m THEN m[k] ELSE {}) \cup {v})

\* all sequences without repetition of elements of S
RECURSIVE Arrangements(_)
Arrangements(S) ==
    { << >> } \cup UNION { { << x >> \o t : t \in Arrangements(S \ {x}) } : x \in S }

Permutations_of(S) == { t \in Arrangements(S) : Len(t) = Cardinality(S) }

Range(q) == { q[i] : i \in 1 .. Len(q) }

-----------------------------------------------------------------------------
(* MemInterface and the DRAM oracle.                                       *)
(* The oracle holds the reads it accepted and has not returned yet, in the *)
(* order it accepted them; a write it accepts is never returned.           *)

MemInterface_new(send_size, recv_size) ==
    [ send_queue |-> << >>,
      send_size |-> send_size,
      recv_queue |-> << >>,
      recv_size |-> recv_size,
      current_waiting_request |-> EmptyMap,
      current_waiting_mem_request |-> EmptyMap ]

Oracle_new == [ pending |-> << >>, stall |-> MaxStall ]

MemInterface_available(mi) == Len(mi.send_queue) < mi.send_size

MemInterface_send(mi, id, addr_vec, is_write) ==
    [ mi EXCEPT !.send_queue =
          Append(@, [ addr_vec |-> addr_vec, id |-> id, is_write |-> is_write ]) ]

MemInterface_receive(mi) ==
    IF mi.recv_queue = << >> THEN None ELSE Some(Head(mi.recv_queue))

\* receive_pop leaves the interface without the front of recv_queue
MemInterface_receive_pop(mi) ==
    IF mi.recv_queue = << >> THEN mi ELSE [ mi EXCEPT !.recv_queue = Tail(@) ]

\* an issue loop that does not put a refused write address back
RECURSIVE IssueLoop_drops_refused(_)
IssueLoop_drops_refused(st) ==
    IF st.addr_vec = << >> THEN st
    ELSE
      LET addr == st.addr_vec[Len(st.addr_vec)]
          rest == SubSeq(st.addr_vec, 1, Len(st.addr_vec) - 1)
      IN
      IF st.is_write
      THEN IF st.credit > 0
           THEN IssueLoop_drops_refused(
                    [ st EXCEPT !.addr_vec = rest, !.credit = @ - 1,
                                !.issued = Append(@, << addr, TRUE >>) ])
           ELSE [ st EXCEPT !.addr_vec = rest ]
      ELSE IF addr \in DOMAIN st.cwmr
      THEN IssueLoop_drops_refused(
               [ st EXCEPT !.addr_vec = rest,
                           !.cwmr = MapInsert(@, addr, st.id),
                           !.cwr = MapInsert(@, st.id, addr),
                           !.registered = @ \cup { << st.id, addr >> } ])
      ELSE IF st.credit > 0
      THEN IssueLoop_drops_refused(
               [ st EXCEPT !.addr_vec = rest, !.credit = @ - 1,
                           !.cwr = MapInsert(@, st.id, addr),
                           !.cwmr = MapInsert(@, addr, st.id),
                           !.registered = @ \cup { << st.id, addr >> },
                           !.pending = Append(@, addr),
                           !.issued = Append(@, << addr, FALSE >>) ])
      ELSE st

\* The issue loops of MemInterface::cycle on the front request. st carries
\* the request (addr_vec, id, is_write), the two maps, the oracle's pending
\* reads and credit, the number of addresses the oracle accepts before it
\* refuses one; issued and registered record what the loop did.
RECURSIVE IssueLoop(_)
IssueLoop(st) ==
    IF st.addr_vec = << >> THEN st
    ELSE
      LET addr == st.addr_vec[Len(st.addr_vec)]
          rest == SubSeq(st.addr_vec, 1, Len(st.addr_vec) - 1)
      IN
      IF st.is_write
      THEN IF st.credit > 0
           THEN IssueLoop([ st EXCEPT !.addr_vec = rest, !.credit = @ - 1,
                                      !.issued = Append(@, << addr, TRUE >>) ])
           ELSE st
      ELSE IF addr % LineSize # 0
      THEN [ st EXCEPT !.addr_vec = rest, !.panic = "addr should be 64 aligned" ]
      ELSE IF addr \in DOMAIN st.cwmr
      THEN IssueLoop([ st EXCEPT !.addr_vec = rest,
                                 !.cwmr = MapInsert(@, addr, st.id),
                                 !.cwr = MapInsert(@, st.id, addr),
                                 !.registered = @ \cup { << st.id, addr >> } ])
      ELSE IF st.credit > 0
      THEN IssueLoop([ st EXCEPT !.addr_vec = rest, !.credit = @ - 1,
                                 !.cwr = MapInsert(@, st.id, addr),
                                 !.cwmr = MapInsert(@, addr, st.id),
                                 !.registered = @ \cup { << st.id, addr >> },
                                 !.pending = Append(@, addr),
                                 !.issued = Append(@, << addr, FALSE >>) ])
      ELSE st

\* a return that reaches the first of the requests attached to the address
\* only
ReceiveIds_first_only(st, addr, ids) ==
    IF ids = << >> THEN st
    ELSE LET id == Head(ids)
             req == st.cwr[id] \ {addr}
             st1 == [ st EXCEPT !.done = @ \cup { << id, addr >> } ]
         IN IF req = {}
            THEN [ st1 EXCEPT !.cwr = MapRemove(@, id),
                              !.recv_queue = Append(@, id),
                              !.pushed = Append(@, id) ]
            ELSE [ st1 EXCEPT !.cwr = MapPut(@, id, req) ]

\* one returned address: remove it from every request that waits for it, in
\* the order ord, and push the requests that wait for nothing else
RECURSIVE ReceiveIds(_, _, _)
ReceiveIds(st, addr, ids) ==
    IF ids = << >> THEN st
    ELSE LET id == Head(ids) IN
         IF id \notin DOMAIN st.cwr
         THEN [ st EXCEPT !.panic = "no request for id" ]
         ELSE LET req == st.cwr[id] \ {addr}
                  st1 == [ st EXCEPT !.done = @ \cup { << id, addr >> } ]
              IN IF req = {}
                 THEN ReceiveIds([ st1 EXCEPT !.cwr = MapRemove(@, id),
                                              !.recv_queue = Append(@, id),
                                              !.pushed = Append(@, id) ],
                                 addr, Tail(ids))
                 ELSE ReceiveIds([ st1 EXCEPT !.cwr = MapPut(@, id, req) ],
                                 addr, Tail(ids))

\* The receive loop of MemInterface::cycle: ret lists the positions, in the
\* oracle's pending reads, of the lines it is ready to return, in order
RECURSIVE ReceiveLoop(_, _, _, _)
ReceiveLoop(st, before, ret, ord) ==
    IF ret = << >> \/ ~ (Len(st.recv_queue) < st.recv_size) \/ st.panic # "none"
    THEN st
    ELSE LET addr == before[Head(ret)] IN
         IF addr \notin DOMAIN st.cwmr
         THEN [ st EXCEPT !.panic = "no request for addr" ]
         ELSE ReceiveLoop(
                  ReceiveIds([ st EXCEPT !.cwmr = MapRemove(@, addr),
                                         !.returned = Append(@, Head(ret)) ],
                             addr,
                             SelectSeq(ord, LAMBDA id : id \in st.cwmr[addr])),
                  before, Tail(ret), ord)

\* MemInterface::cycle with the oracle's choices of this cycle: credit, ret
\* and ord (the iteration order of a HashSet of requests)
MemInterface_cycle(mi, m, credit, ret, ord) ==
    LET st0 == [ addr_vec |-> << >>, id |-> None, is_write |-> FALSE,
                 cwr |-> mi.current_waiting_request,
                 cwmr |-> mi.current_waiting_mem_request,
                 pending |-> m.pending, credit |-> credit,
                 issued |-> << >>, registered |-> {}, panic |-> "none",
                 recv_queue |-> mi.recv_queue, recv_size |-> mi.recv_size,
                 pushed |-> << >>, returned |-> << >>, done |-> {} ]
        st1 == IF mi.send_queue = << >> THEN st0
               ELSE IssueLoop([ st0 EXCEPT
                                   !.addr_vec = Head(mi.send_queue).addr_vec,
                                   !.id = Head(mi.send_queue).id,
                                   !.is_write = Head(mi.send_queue).is_write ])
        send_queue ==
            IF mi.send_queue = << >> THEN << >>
            ELSE IF st1.addr_vec = << >> THEN Tail(mi.send_queue)
            ELSE << [ Head(mi.send_queue) EXCEPT !.addr_vec = st1.addr_vec ] >>
                 \o Tail(mi.send_queue)
        st2 == IF st1.panic # "none" THEN st1 ELSE ReceiveLoop(st1, m.pending, ret, ord)
        left == { i \in 1 .. Len(st2.pending) : i \notin Range(st2.returned) }
    IN [ mi |-> [ mi EXCEPT !.send_queue = send_queue,
                            !.recv_queue = st2.recv_queue,
                            !.current_waiting_request = st2.cwr,
                            !.current_waiting_mem_request = st2.cwmr ],
         pending |-> LET keep == SelectSeq([ i \in 1 .. Len(st2.pending) |-> i ],
                                           LAMBDA i : i \in left)
                     IN [ k \in 1 .. Len(keep) |-> st2.pending[keep[k]] ],
         refused |-> st1.addr_vec # << >> /\ st1.panic = "none",
         held |-> Len(st2.returned) < Len(m.pending),
         id |-> st1.id,
         issued |-> st1.issued,
         registered |-> st1.registered,
         pushed |-> st2.pushed,
         done |-> st2.done,
         returned |-> st2.returned,
         panic |-> st2.panic ]

-----------------------------------------------------------------------------
(* The double buffers.  A slot is a state and a window payload. *)

Buffer_new ==
    [ current_state |-> "Empty", next_state |-> "Empty",
      current_window |-> None, next_window |-> None ]

\* swap(current_state, next_state); swap(current_window, next_window)
Buffer_swap(b) ==
    [ b EXCEPT !.current_state = b.next_state, !.next_state = b.current_state,
               !.current_window = b.next_window, !.next_window = b.current_window ]

InputBuffer_new == Buffer_new

\* a rotation on the rule of the other buffers
InputBuffer_cycle_on_ready(b) ==
    IF b.current_state = "Ready" /\ b.next_state = "Empty" THEN Buffer_swap(b) ELSE b

\* an input buffer that never rotates
InputBuffer_cycle_never(b) == b

InputBuffer_cycle(b) ==
    IF b.current_state = "Empty" /\ b.next_state # "Empty" THEN Buffer_swap(b) ELSE b

\* InputBuffer::receive: [panic, b]
InputBuffer_receive(b, id) ==
    IF b.current_state = "Loading" /\ IsSome(b.current_window)
       /\ Unwrap(b.current_window).task_id = id
    THEN [ panic |-> FALSE, b |-> [ b EXCEPT !.current_state = "Ready" ] ]
    ELSE IF b.next_state = "Loading" /\ IsSome(b.next_window)
            /\ Unwrap(b.next_window).task_id = id
    THEN [ panic |-> FALSE, b |-> [ b EXCEPT !.next_state = "Ready" ] ]
    ELSE [ panic |-> TRUE, b |-> b ]

InputBuffer_send_req(b, is_current) ==
    IF is_current THEN [ b EXCEPT !.current_state = "Loading" ]
    ELSE [ b EXCEPT !.next_state = "Loading" ]

InputBuffer_add_task_to_next(b, window) ==
    [ b EXCEPT !.next_state = "WaitingToLoad", !.next_window = Some(window) ]

InputBuffer_add_task_to_current(b, window) ==
    [ b EXCEPT !.current_state = "WaitingToLoad", !.current_window = Some(window) ]

\* a finished_aggregation that leaves the slot Reading
InputBuffer_finished_aggregation_keeps_reading(b) == b

InputBuffer_finished_aggregation(b) == [ b EXCEPT !.current_state = "Empty" ]

InputBuffer_start_aggragating(b) == [ b EXCEPT !.current_state = "Reading" ]

\* TempAggResult::new: one empty set per node
TempAggResult_new(num_nodes) == [ i \in 0 .. num_nodes - 1 |-> {} ]

AggBuffer_new(num_nodes, is_sparse) ==
    [ current_state |-> "Empty", next_state |-> "Empty",
      current_window |-> None, next_window |-> None,
      current_temp_result |->
          IF is_sparse THEN Some(TempAggResult_new(num_nodes)) ELSE None,
      next_temp_result |->
          IF is_sparse THEN Some(TempAggResult_new(num_nodes)) ELSE None ]

\* a rotation that does not wait for the end of the aggregation
AggBuffer_cycle_on_writing(b) ==
    IF b.current_state = "Writing" /\ b.next_state = "Empty"
    THEN [ Buffer_swap(b) EXCEPT !.current_temp_result = b.next_temp_result,
                                 !.next_temp_result = b.current_temp_result ]
    ELSE b

AggBuffer_cycle(b) ==
    IF b.current_state = "WaitingToMlp" /\ b.next_state = "Empty"
    THEN [ Buffer_swap(b) EXCEPT !.current_temp_result = b.next_temp_result,
                                 !.next_temp_result = b.current_temp_result ]
    ELSE b

AggBuffer_add_task(b, window) ==
    [ b EXCEPT !.current_window = Some(window), !.current_state = "Writing" ]

\* AggBuffer::start_mlp: [panic, b]
AggBuffer_start_mlp(b) ==
    IF b.next_state # "WaitingToMlp" THEN [ panic |-> TRUE, b |-> b ]
    ELSE [ panic |-> FALSE, b |-> [ b EXCEPT !.next_state = "Mlp" ] ]

\* a finished_mlp that leaves the partial sets of the slot as they are
AggBuffer_finished_mlp_keeps_sets(b) ==
    IF b.next_state # "Mlp" THEN [ panic |-> TRUE, b |-> b ]
    ELSE [ panic |-> FALSE, b |-> [ b EXCEPT !.next_state = "Empty" ] ]

\* a finished_mlp that clears the partial sets and keeps the slot in Mlp
AggBuffer_finished_mlp_keeps_slot(b) ==
    IF b.next_state # "Mlp" THEN [ panic |-> TRUE, b |-> b ]
    ELSE [ panic |-> FALSE,
           b |-> [ b EXCEPT !.next_temp_result =
                                IF IsSome(@)
                                THEN Some([ i \in DOMAIN Unwrap(@) |-> {} ])
                                ELSE @ ] ]

\* AggBuffer::finished_mlp: [panic, b]
AggBuffer_finished_mlp(b) ==
    IF b.next_state # "Mlp" THEN [ panic |-> TRUE, b |-> b ]
    ELSE [ panic |-> FALSE,
           b |-> [ b EXCEPT !.next_state = "Empty",
                            !.next_temp_result =
                                IF IsSome(@)
                                THEN Some([ i \in DOMAIN Unwrap(@) |-> {} ])
                                ELSE @ ] ]

\* a finished_aggregation that leaves the slot Writing
AggBuffer_finished_aggregation_stays_writing(b) == b

AggBuffer_finished_aggregation(b) == [ b EXCEPT !.current_state = "WaitingToMlp" ]

SparsifyBuffer_new == Buffer_new

SparsifyBuffer_cycle(b) ==
    IF b.current_state = "WaitingToSparsify" /\ b.next_state = "Empty"
    THEN Buffer_swap(b) ELSE b

\* SparsifyBuffer::start_mlp.  handle_start_mlp passes the output window and
\* handle_start_sparsify reads it back from the slot, so the slot keeps it
SparsifyBuffer_start_mlp(b, window) ==
    IF b.current_state # "Empty" THEN [ panic |-> TRUE, b |-> b ]
    ELSE [ panic |-> FALSE,
           b |-> [ b EXCEPT !.current_state = "Writing",
                            !.current_window = Some(window) ] ]

\* SparsifyBuffer::finished_writing, which the System calls finished_mlp
SparsifyBuffer_finished_mlp(b) ==
    IF b.current_state # "Writing" THEN [ panic |-> TRUE, b |-> b ]
    ELSE [ panic |-> FALSE, b |-> [ b EXCEPT !.current_state = "WaitingToSparsify" ] ]

SparsifyBuffer_start_sparsify(b) ==
    IF b.next_state # "WaitingToSparsify" THEN [ panic |-> TRUE, b |-> b ]
    ELSE [ panic |-> FALSE, b |-> [ b EXCEPT !.next_state = "Sparsifying" ] ]

SparsifyBuffer_finished_sparsify(b) ==
    IF b.next_state # "Sparsifying" THEN [ panic |-> TRUE, b |-> b ]
    ELSE [ panic |-> FALSE, b |-> [ b EXCEPT !.next_state = "Empty" ] ]

OutputBuffer_new == Buffer_new

OutputBuffer_cycle(b) ==
    IF b.current_state = "WaitingToWriteBack" /\ b.next_state = "Empty"
    THEN Buffer_swap(b) ELSE b

OutputBuffer_start_sparsify(b, window) ==
    IF b.current_state # "Empty" THEN [ panic |-> TRUE, b |-> b ]
    ELSE [ panic |-> FALSE,
           b |-> [ b EXCEPT !.current_state = "Writing",
                            !.current_window = Some(window) ] ]

OutputBuffer_finished_sparsify(b) ==
    IF b.current_state # "Writing" THEN [ panic |-> TRUE, b |-> b ]
    ELSE [ panic |-> FALSE, b |-> [ b EXCEPT !.current_state = "WaitingToWriteBack" ] ]

\* a write back that also drops the window of the slot
OutputBuffer_start_write_back_drops_window(b) ==
    IF b.next_state # "WaitingToWriteBack" THEN [ panic |-> TRUE, b |-> b ]
    ELSE [ panic |-> FALSE, b |-> [ b EXCEPT !.next_state = "Empty", !.next_window = None ] ]

OutputBuffer_start_write_back(b) ==
    IF b.next_state # "WaitingToWriteBack" THEN [ panic |-> TRUE, b |-> b ]
    ELSE [ panic |-> FALSE, b |-> [ b EXCEPT !.next_state = "Empty" ] ]

-----------------------------------------------------------------------------
(* The compute units *)

Unit_new == [ state |-> "Idle", remaining_cycle |-> 0 ]

\* Aggregator::cycle and Mlp::cycle
Unit_cycle(u) ==
    IF u.state = "Working"
    THEN IF u.remaining_cycle = 0 THEN [ u EXCEPT !.state = "Finished" ]
         ELSE [ u EXCEPT !.remaining_cycle = @ - 1 ]
    ELSE u

Aggregator_cycle(u) == Unit_cycle(u)

Mlp_cycle(u) == Unit_cycle(u)

Sparsifier_cycle(u) ==
    IF u.state = "Working"
    THEN IF u.remaining_cycle = 0 THEN [ u EXCEPT !.state = "Idle" ]
         ELSE [ u EXCEPT !.remaining_cycle = @ - 1 ]
    ELSE u

\* an edge range that includes the row at end_input_index
edge_range_inclusive(s, window, j) ==
    { i \in s.csc[j + 1] : window.start_input_index <= i /\ i <= window.end_input_index }

\* the edge range of output node j in an input window: csc[j].range(start..end)
edge_range(s, window, j) ==
    { i \in s.csc[j + 1] : window.start_input_index <= i /\ i < window.end_input_index }

SetMin(S) == CHOOSE x \in S : \A y \in S : x <= y

\* Aggregator::get_add_cycle_and_result_sparse: [cycles, result]
\* an aggregation that takes the source nodes in decreasing order
RECURSIVE get_add_cycle_and_result_sparse_descending(_, _, _, _, _)
get_add_cycle_and_result_sparse_descending(s, layer, output_feature, input_nodes, cycles) ==
    IF input_nodes = {} THEN [ cycles |-> cycles, result |-> output_feature ]
    ELSE LET i == CHOOSE x \in input_nodes : \A y \in input_nodes : y <= x IN
         get_add_cycle_and_result_sparse_descending(
             s, layer, output_feature \cup get_features(s, layer, i),
             input_nodes \ {i},
             cycles + Cardinality(output_feature)
                    + Cardinality(get_features(s, layer, i)))

RECURSIVE get_add_cycle_and_result_sparse(_, _, _, _, _)
get_add_cycle_and_result_sparse(s, layer, output_feature, input_nodes, cycles) ==
    IF input_nodes = {} THEN [ cycles |-> cycles, result |-> output_feature ]
    ELSE LET i == SetMin(input_nodes) IN
         get_add_cycle_and_result_sparse(
             s, layer, output_feature \cup get_features(s, layer, i),
             input_nodes \ {i},
             cycles + Cardinality(output_feature)
                    + Cardinality(get_features(s, layer, i)))

\* add cost i to the first core without sorting the loads
AddToFirstCore(core_cycles, i) ==
    [ core_cycles EXCEPT ![1] = @ + i ]

\* add cost i to the least loaded core
AddToLeastLoaded(core_cycles, i) ==
    LET k == CHOOSE k \in 1 .. Len(core_cycles) :
                 \A l \in 1 .. Len(core_cycles) : core_cycles[k] <= core_cycles[l]
    IN [ core_cycles EXCEPT ![k] = @ + i ]

RECURSIVE AssignCores(_, _)
AssignCores(core_cycles, cycle_vec) ==
    IF cycle_vec = << >> THEN core_cycles
    ELSE AssignCores(AddToLeastLoaded(core_cycles, Head(cycle_vec)), Tail(cycle_vec))

RECURSIVE SeqMax(_)
SeqMax(q) == IF q = << >> THEN 0 ELSE Max(Head(q), SeqMax(Tail(q)))

\* Aggregator::get_add_sparse_cycle: [cycles, temp (the updated TempAggResult)]
get_add_sparse_cycle(s, window, temp) ==
    LET layer == window.task_id.layer_id
        so == window.start_output_index
        eo == window.end_output_index
        one(j) == get_add_cycle_and_result_sparse(
                      s, layer, temp[j], edge_range(s, window, j), 0)
        cycle_vec == [ k \in 1 .. (eo - so) |-> one(so + k - 1).cycles ]
        core_cycles == AssignCores([ k \in 1 .. s.sparse_cores |-> 0 ], cycle_vec)
    IN [ cycles |-> SeqMax(core_cycles),
         temp |-> [ j \in DOMAIN temp |->
                      IF so <= j /\ j < eo THEN one(j).result ELSE temp[j] ] ]

RECURSIVE SumOver(_, _)
SumOver(f, S) ==
    IF S = {} THEN 0
    ELSE LET x == CHOOSE x \in S : TRUE IN f[x] + SumOver(f, S \ {x})

\* Aggregator::add_task: [u, temp]
Aggregator_add_task(s, u, window, temp_agg_result) ==
    IF s.running_mode = "Sparse"
    THEN LET r == get_add_sparse_cycle(s, window, Unwrap(temp_agg_result))
         IN [ u |-> [ u EXCEPT !.state = "Working", !.remaining_cycle = r.cycles ],
              temp |-> Some(r.temp) ]
    ELSE LET num_add ==
                 SumOver([ j \in window.start_output_index .. window.end_output_index - 1
                             |-> Cardinality(edge_range(s, window, j)) ],
                         window.start_output_index .. window.end_output_index - 1)
             cycles == (num_add * window.output_window.input_node_dim)
                           \div (s.dense_width * s.dense_cores)
         IN [ u |-> [ u EXCEPT !.state = "Working", !.remaining_cycle = cycles * 2 ],
              temp |-> temp_agg_result ]

\* a finished_aggregation that leaves the aggregator Finished
Aggregator_finished_aggregation_stays_finished(u) == u

Aggregator_finished_aggregation(u) == [ u EXCEPT !.state = "Idle" ]

\* Mlp::start_mlp
Mlp_start_mlp(s, u, output_window, output_results) ==
    IF IsSome(output_results)
    THEN LET res == Unwrap(output_results)
             total_add == SumOver([ i \in DOMAIN res |-> Cardinality(res[i]) ], DOMAIN res)
             total_cycle == (total_add * output_window.output_node_dim)
                                \div s.mlp_sparse_cores
         IN [ u EXCEPT !.state = "Working", !.remaining_cycle = total_cycle * 2 ]
    ELSE LET num_nodes == output_window.end_output_index - output_window.start_output_index
             steps == (s.systolic_rows + num_nodes - 1) \div s.systolic_rows
             elements_steps ==
                 (output_window.output_node_dim + s.systolic_cols - 1) \div s.systolic_cols
             per_step == s.systolic_rows + s.systolic_cols + output_window.input_node_dim
                         + (((s.systolic_rows * s.systolic_rows) \div 4) \div 32)
         IN [ u EXCEPT !.state = "Working",
                       !.remaining_cycle = steps * (elements_steps - 1) * per_step ]

Mlp_finished_mlp(u) == [ u EXCEPT !.state = "Idle" ]

\* an add_task with the cost of a final-layer window
Sparsifier_add_task_one_cycle(u) ==
    [ u EXCEPT !.state = "Working", !.remaining_cycle = SparsifyCyclesLastLayer ]

Sparsifier_add_task(u) ==
    [ u EXCEPT !.remaining_cycle = SparsifyCycles, !.state = "Working" ]

Sparsifier_add_task_last_layer(u) ==
    [ u EXCEPT !.remaining_cycle = SparsifyCyclesLastLayer, !.state = "Working" ]

-----------------------------------------------------------------------------
(* System: construction, the window cursor and the address vectors *)

DenseLayerBase == 268435456

\* System::new: the window cursor after construction; ok is false when one
\* of its expect() calls fails
System_new(s) ==
    LET o == OutputWindowIterator_next(s, OutputWindowIterator_new(0, gcn_layer_num(s) = 1))
        i == InputWindowIterator_next(s, Unwrap(o.item))
    IN IF o.kind # "Some" THEN [ ok |-> FALSE ]
       ELSE IF i.kind # "Some" THEN [ ok |-> FALSE ]
       ELSE [ ok |-> TRUE,
              iter |-> [ current_layer |-> 0,
                         current_output_iter |-> o.it,
                         current_input_iter |-> i.it,
                         current_window |-> i.item ] ]

\* System::move_to_next_window, called with current_window taken:
\* [iter, state, panic]
RECURSIVE move_to_next_window(_, _, _)
move_to_next_window(s, it, st) ==
    LET r == InputWindowIterator_next(s, it.current_input_iter) IN
    IF r.kind = "Panic"
    THEN [ iter |-> it, state |-> st, panic |-> "x_len is 0" ]
    ELSE IF r.kind = "Some"
    THEN [ iter |-> [ it EXCEPT !.current_input_iter = r.it, !.current_window = r.item ],
           state |-> st, panic |-> "none" ]
    ELSE
      LET o == OutputWindowIterator_next(s, it.current_output_iter) IN
      IF o.kind = "Panic"
      THEN [ iter |-> it, state |-> st, panic |-> "Output size is 0" ]
      ELSE IF o.kind = "Some"
      THEN LET r2 == InputWindowIterator_next(s, Unwrap(o.item))
               it2 == [ it EXCEPT !.current_output_iter = o.it,
                                  !.current_input_iter = r2.it,
                                  !.current_window = r2.item ]
           IN IF r2.kind = "Panic"
              THEN [ iter |-> it, state |-> st, panic |-> "x_len is 0" ]
              ELSE IF r2.kind = "Some"
              THEN [ iter |-> it2, state |-> st, panic |-> "none" ]
              ELSE move_to_next_window(s, it2, st)
      ELSE
        LET layer == it.current_layer + 1 IN
        IF layer >= gcn_layer_num(s)
        THEN [ iter |-> [ it EXCEPT !.current_layer = layer, !.current_input_iter = r.it ],
               state |-> "NoMoreWindow", panic |-> "none" ]
        ELSE
          LET o2 == OutputWindowIterator_next(
                        s, OutputWindowIterator_new(layer, layer = gcn_layer_num(s) - 1))
              r3 == InputWindowIterator_next(s, Unwrap(o2.item))
              it3 == [ current_layer |-> layer,
                       current_output_iter |-> o2.it,
                       current_input_iter |-> r3.it,
                       current_window |-> r3.item ]
          IN IF o2.kind # "Some"
             THEN [ iter |-> it, state |-> st, panic |-> "cannot build the first input iter" ]
             ELSE IF r3.kind = "Panic"
             THEN [ iter |-> it, state |-> st, panic |-> "x_len is 0" ]
             ELSE IF r3.kind = "Some"
             THEN [ iter |-> it3, state |-> "ChangedLayer", panic |-> "none" ]
             ELSE move_to_next_window(s, it3, "ChangedLayer")

\* while start_addr < end_addr { addr_vec.push(start_addr); start_addr += 64 }
RECURSIVE AddrRange(_, _)
AddrRange(start_addr, end_addr) ==
    IF start_addr < end_addr
    THEN << start_addr >> \o AddrRange(start_addr + LineSize, end_addr)
    ELSE << >>

\* the read addresses of an input window, from start_addrs of its layer
sparse_addr_vec(s, window) ==
    LET layer == window.task_id.layer_id IN
    AddrRange((start_addrs(s, layer, window.start_input_index) \div LineSize) * LineSize,
              start_addrs(s, layer, window.end_input_index))

\* the read addresses of an input window in Dense mode
dense_addr_vec(s, window) ==
    LET base_addr == window.task_id.layer_id * DenseLayerBase
        dim == window.output_window.input_node_dim
    IN AddrRange(base_addr + window.start_input_index * dim * 4,
                 base_addr + window.end_input_index * dim * 4)

\* the write addresses of an output window, in the next layer's features
write_addr_vec(s, ow) ==
    LET layer == ow.task_id.layer_id + 1 IN
    AddrRange((start_addrs(s, layer, ow.start_output_index) \div LineSize) * LineSize,
              start_addrs(s, layer, ow.end_output_index))

-----------------------------------------------------------------------------
(* System::cycle, one step per component round and per handler *)

Handlers == << "H1", "H2", "H3", "H4", "H5", "H6", "H7", "H8", "H9", "H10" >>

HandlerIndex(h) == CHOOSE k \in 1 .. Len(Handlers) : Handlers[k] = h

\* the handler evaluated after h returned false; "idle" is the watchdog
Successor(h) ==
    IF HandlerIndex(h) = Len(Handlers) THEN "idle" ELSE Handlers[HandlerIndex(h) + 1]

\* a cycle that goes on to the next handler after one has fired
AfterHandler_fall_through(h, fired) == Successor(h)

\* a handler that returns true ends the cycle
AfterHandler(h, fired) == IF fired THEN "cycle" ELSE Successor(h)

\* a cycle that calls handle_input_buffer_add_task in every state
FirstHandler_always_add_task(st) == "H1"

\* handle_input_buffer_add_task is called in state Working only
FirstHandler(st) == IF st = "Working" THEN "H1" ELSE "H2"

HistInit ==
    [ cycled |-> {}, cycle_state |-> "Working", evals |-> << >>,
      fired_in_cycle |-> 0, last |-> "none", idle_run |-> 0,
      sent |-> {}, registered |-> {}, done |-> {}, pushed |-> << >>,
      popped |-> << >>, final_written |-> {}, wb |-> None, call |-> None,
      yielded |-> << >>, in_order |-> TRUE, issued |-> << >>, pipeline |-> << >> ]

Init ==
    /\ sc \in { s \in Scenarios : System_new(s).ok }
    /\ state = "Working"
    /\ finished = FALSE
    /\ pc = "cycle"
    /\ aborted = "none"
    /\ input_buffer = InputBuffer_new
    /\ agg_buffer = AggBuffer_new(get_num_node(sc), sc.running_mode = "Sparse")
    /\ sparsify_buffer = SparsifyBuffer_new
    /\ output_buffer = OutputBuffer_new
    /\ aggregator = Unit_new
    /\ mlp = Unit_new
    /\ sparsifier = Unit_new
    /\ mem_interface = MemInterface_new(SendSize, RecvSize)
    /\ mem = Oracle_new
    /\ iter = System_new(sc).iter
    /\ watchdog = [ possible_deadloack_count |-> 0, deadlock_count |-> 0 ]
    /\ hist = HistInit

bufs == << input_buffer, agg_buffer, sparsify_buffer, output_buffer >>

units == << aggregator, mlp, sparsifier >>

Running == aborted = "none" /\ ~ finished

\* the requests whose order in a HashSet the oracle's answer may expose
InFlightIds(mi) ==
    DOMAIN mi.current_waiting_request
    \cup (IF mi.send_queue # << >> /\ ~ Head(mi.send_queue).is_write
          THEN { Head(mi.send_queue).id } ELSE {})

FrontLen(mi) == IF mi.send_queue = << >> THEN 0 ELSE Len(Head(mi.send_queue).addr_vec)

\* the history of the memory interface after one MemInterface::cycle;
\* in_order: the oracle has returned its lines in the order of their issue;
\* issued: the addresses handed to the oracle so far, with their request
HistMem(h, r) ==
    [ h EXCEPT !.registered = @ \cup r.registered,
               !.done = @ \cup r.done,
               !.pushed = @ \o r.pushed,
               !.in_order = @ /\ r.returned = [ k \in 1 .. Len(r.returned) |-> k ],
               !.issued = @ \o [ k \in 1 .. Len(r.issued) |->
                                   [ id |-> r.id, addr |-> r.issued[k][1],
                                     is_write |-> r.issued[k][2] ] ] ]

\* what one MemInterface::cycle can do, over the oracle's choices: a cycle
\* in which the oracle refuses an address or holds back a line costs one
\* unit of its stall budget
CycleOutcomes(mi, m) ==
    { o \in { LET r == MemInterface_cycle(mi, m, c[1], c[2], c[3])
                  stalled == r.refused \/ Len(c[2]) < Len(m.pending)
              IN [ r |-> r, stalled |-> stalled,
                   mem |-> [ pending |-> r.pending,
                             stall |-> IF stalled THEN m.stall - 1 ELSE m.stall ] ] :
              c \in (0 .. FrontLen(mi)) \X Arrangements(1 .. Len(m.pending))
                        \X Permutations_of(InFlightIds(mi)) } :
        o.stalled => m.stall > 0 }

Components ==
    { "aggregator", "mem_interface", "agg_buffer", "input_buffer", "output_buffer",
      "sparsifier", "sparsify_buffer", "mlp" }

\* the eight component cycles of System::cycle
ComponentsCycle ==
    /\ pc = "cycle" /\ Running
    /\ state \in { "Working", "NoMoreWindow", "ChangedLayer" }
    /\ \E o \in CycleOutcomes(mem_interface, mem) :
         /\ mem_interface' = o.r.mi
         /\ mem' = o.mem
         /\ aborted' = o.r.panic
         /\ hist' = [ HistMem(hist, o.r) EXCEPT
                          !.cycled = Components, !.cycle_state = state,
                          !.evals = << >>, !.fired_in_cycle = 0 ]
    /\ aggregator' = Aggregator_cycle(aggregator)
    /\ agg_buffer' = AggBuffer_cycle(agg_buffer)
    /\ input_buffer' = InputBuffer_cycle(input_buffer)
    /\ output_buffer' = OutputBuffer_cycle(output_buffer)
    /\ sparsifier' = Sparsifier_cycle(sparsifier)
    /\ sparsify_buffer' = SparsifyBuffer_cycle(sparsify_buffer)
    /\ mlp' = Mlp_cycle(mlp)
    /\ pc' = FirstHandler(state)
    /\ UNCHANGED << sc, state, finished, iter, watchdog >>

\* the bookkeeping of a handler that returned true: hb is the history with
\* the window a compute-pipeline handler works on when it fires: the input
\* window for the aggregator, the output window of the slot it reads for the
\* others (an output window has no is_last_row)
PipelineHandlers == { "H4", "H5", "H6", "H7", "H8", "H9", "H10" }

PipelineWindow(h) ==
    LET out(o) == [ task_id |-> Unwrap(o).task_id, is_last_row |-> FALSE ] IN
    CASE h \in { "H4", "H5" } ->
             [ task_id |-> Unwrap(input_buffer.current_window).task_id,
               is_last_row |-> Unwrap(input_buffer.current_window).is_last_row ]
      [] h \in { "H6", "H7" } -> out(agg_buffer.next_window)
      [] h \in { "H8", "H9" } -> out(sparsify_buffer.next_window)
      [] OTHER -> out(output_buffer.next_window)

\* what the handler itself recorded
Fired(h, hb) ==
    /\ pc' = AfterHandler(h, TRUE)
    /\ hist' = [ hb EXCEPT !.evals = Append(@, h), !.fired_in_cycle = @ + 1,
                           !.last = h, !.idle_run = 0, !.cycled = {},
                           !.pipeline = IF h \in PipelineHandlers
                                        THEN Append(@, [ h |-> h,
                                                         id |-> PipelineWindow(h).task_id,
                                                         last |-> PipelineWindow(h).is_last_row ])
                                        ELSE @ ]

\* the bookkeeping of a handler that returned false
NotFired(h) ==
    /\ pc' = AfterHandler(h, FALSE)
    /\ hist' = [ hist EXCEPT !.evals = Append(@, h) ]
    /\ UNCHANGED << sc, state, finished, aborted, bufs, units, mem_interface, mem,
                    iter, watchdog >>

\* a panic inside handler h ends the run
Panic(h, msg) ==
    /\ aborted' = msg
    /\ hist' = [ hist EXCEPT !.evals = Append(@, h) ]
    /\ UNCHANGED << sc, state, finished, pc, bufs, units, mem_interface, mem,
                    iter, watchdog >>

\* H1
handle_input_buffer_add_task ==
    /\ pc = "H1" /\ Running
    /\ IF input_buffer.current_state = "Empty" \/ input_buffer.next_state = "Empty"
       THEN IF ~ IsSome(iter.current_window)
            THEN Panic("H1", "unwrap on None")
            ELSE LET window == Unwrap(iter.current_window)
                     m == move_to_next_window(sc, [ iter EXCEPT !.current_window = None ],
                                              state)
                 IN /\ input_buffer' =
                           IF input_buffer.current_state = "Empty"
                           THEN InputBuffer_add_task_to_current(input_buffer, window)
                           ELSE InputBuffer_add_task_to_next(input_buffer, window)
                    /\ iter' = m.iter
                    /\ state' = m.state
                    /\ aborted' = m.panic
                    /\ Fired("H1", hist)
                    /\ UNCHANGED << sc, finished, agg_buffer, sparsify_buffer,
                                    output_buffer, units, mem_interface, mem, watchdog >>
       ELSE NotFired("H1")

\* H2
handle_input_buffer_to_mem ==
    /\ pc = "H2" /\ Running
    /\ LET is_current == input_buffer.current_state = "WaitingToLoad"
           is_next == input_buffer.next_state = "WaitingToLoad"
       IN
       IF (is_current \/ is_next) /\ MemInterface_available(mem_interface)
       THEN IF is_current /\ sc.running_mode = "Mixed"
            THEN Panic("H2", "not yet implemented")
            ELSE LET window == IF is_current THEN Unwrap(input_buffer.current_window)
                               ELSE Unwrap(input_buffer.next_window)
                     addr_vec == IF is_current /\ sc.running_mode = "Dense"
                                 THEN dense_addr_vec(sc, window)
                                 ELSE sparse_addr_vec(sc, window)
                 IN /\ mem_interface' =
                           MemInterface_send(mem_interface, window.task_id, addr_vec, FALSE)
                    /\ input_buffer' = InputBuffer_send_req(input_buffer, is_current)
                    /\ Fired("H2", [ hist EXCEPT !.sent = @ \cup
                                       { [ id |-> window.task_id, addr_vec |-> addr_vec,
                                           is_write |-> FALSE ] } ])
                    /\ UNCHANGED << sc, state, finished, aborted, agg_buffer,
                                    sparsify_buffer, output_buffer, units, mem, iter,
                                    watchdog >>
       ELSE NotFired("H2")

\* H3
handle_mem_to_input_buffer ==
    /\ pc = "H3" /\ Running
    /\ IF IsSome(MemInterface_receive(mem_interface))
       THEN LET ret_req == Unwrap(MemInterface_receive(mem_interface))
                r == InputBuffer_receive(input_buffer, ret_req)
            IN IF r.panic
               THEN Panic("H3", "no loading window for the request")
               ELSE /\ mem_interface' = MemInterface_receive_pop(mem_interface)
                    /\ input_buffer' = r.b
                    /\ Fired("H3", [ hist EXCEPT !.popped = Append(@, ret_req) ])
                    /\ UNCHANGED << sc, state, finished, aborted, agg_buffer,
                                    sparsify_buffer, output_buffer, units, mem, iter,
                                    watchdog >>
       ELSE NotFired("H3")

\* H4
handle_start_aggregator ==
    /\ pc = "H4" /\ Running
    /\ IF /\ input_buffer.current_state = "Ready"
          /\ aggregator.state = "Idle"
          /\ agg_buffer.current_state \in { "Empty", "Writing" }
       THEN LET current_window == Unwrap(input_buffer.current_window)
                ab == AggBuffer_add_task(agg_buffer, current_window.output_window)
                r == Aggregator_add_task(sc, aggregator, current_window,
                                         ab.current_temp_result)
            IN /\ agg_buffer' = [ ab EXCEPT !.current_temp_result = r.temp ]
               /\ aggregator' = r.u
               /\ input_buffer' = InputBuffer_start_aggragating(input_buffer)
               /\ Fired("H4", hist)
               /\ UNCHANGED << sc, state, finished, aborted, sparsify_buffer,
                               output_buffer, mlp, sparsifier, mem_interface, mem, iter,
                               watchdog >>
       ELSE NotFired("H4")

\* H5
handle_finish_aggregator ==
    /\ pc = "H5" /\ Running
    /\ IF aggregator.state = "Finished"
       THEN IF ~ IsSome(input_buffer.current_window)
            THEN Panic("H5", "unwrap on None")
            ELSE /\ aggregator' = Aggregator_finished_aggregation(aggregator)
                 /\ input_buffer' = InputBuffer_finished_aggregation(input_buffer)
                 /\ agg_buffer' = IF Unwrap(input_buffer.current_window).is_last_row
                                  THEN AggBuffer_finished_aggregation(agg_buffer)
                                  ELSE agg_buffer
                 /\ Fired("H5", hist)
                 /\ UNCHANGED << sc, state, finished, aborted, sparsify_buffer,
                                 output_buffer, mlp, sparsifier, mem_interface, mem, iter,
                                 watchdog >>
       ELSE NotFired("H5")

\* H6
handle_start_mlp ==
    /\ pc = "H6" /\ Running
    /\ IF /\ agg_buffer.next_state = "WaitingToMlp"
          /\ mlp.state = "Idle"
          /\ sparsify_buffer.current_state = "Empty"
       THEN IF ~ IsSome(agg_buffer.next_window)
            THEN Panic("H6", "window should not be None!!")
            ELSE LET current_window == Unwrap(agg_buffer.next_window)
                     sb == SparsifyBuffer_start_mlp(sparsify_buffer, current_window)
                     ab == AggBuffer_start_mlp(agg_buffer)
                 IN IF sb.panic \/ ab.panic
                    THEN Panic("H6", "buffer assertion")
                    ELSE /\ mlp' = Mlp_start_mlp(sc, mlp, current_window,
                                                 agg_buffer.next_temp_result)
                         /\ sparsify_buffer' = sb.b
                         /\ agg_buffer' = ab.b
                         /\ Fired("H6", hist)
                         /\ UNCHANGED << sc, state, finished, aborted, input_buffer,
                                         output_buffer, aggregator, sparsifier,
                                         mem_interface, mem, iter, watchdog >>
       ELSE NotFired("H6")

\* H7
handle_finish_mlp ==
    /\ pc = "H7" /\ Running
    /\ IF mlp.state = "Finished"
       THEN LET sb == SparsifyBuffer_finished_mlp(sparsify_buffer)
                ab == AggBuffer_finished_mlp(agg_buffer)
            IN IF sb.panic \/ ab.panic \/ ~ IsSome(agg_buffer.next_window)
               THEN Panic("H7", "buffer assertion")
               ELSE /\ mlp' = Mlp_finished_mlp(mlp)
                    /\ sparsify_buffer' = sb.b
                    /\ agg_buffer' = ab.b
                    /\ Fired("H7", hist)
                    /\ UNCHANGED << sc, state, finished, aborted, input_buffer,
                                    output_buffer, aggregator, sparsifier,
                                    mem_interface, mem, iter, watchdog >>
       ELSE NotFired("H7")

\* H8
handle_start_sparsify ==
    /\ pc = "H8" /\ Running
    /\ IF /\ sparsify_buffer.next_state = "WaitingToSparsify"
          /\ sparsifier.state = "Idle"
          /\ output_buffer.current_state = "Empty"
       THEN IF ~ IsSome(sparsify_buffer.next_window)
            THEN Panic("H8", "unwrap on None")
            ELSE LET current_window == Unwrap(sparsify_buffer.next_window)
                     window_layer == current_window.task_id.layer_id
                     ob == OutputBuffer_start_sparsify(output_buffer, current_window)
                     sb == SparsifyBuffer_start_sparsify(sparsify_buffer)
                 IN IF ob.panic \/ sb.panic
                    THEN Panic("H8", "buffer assertion")
                    ELSE /\ sparsifier' =
                                IF window_layer = gcn_layer_num(sc) - 1
                                THEN Sparsifier_add_task_last_layer(sparsifier)
                                ELSE Sparsifier_add_task(sparsifier)
                         /\ output_buffer' = ob.b
                         /\ sparsify_buffer' = sb.b
                         /\ Fired("H8", hist)
                         /\ UNCHANGED << sc, state, finished, aborted, input_buffer,
                                         agg_buffer, aggregator, mlp, mem_interface,
                                         mem, iter, watchdog >>
       ELSE NotFired("H8")

\* H9
handle_finish_sparsify ==
    /\ pc = "H9" /\ Running
    /\ IF /\ sparsifier.state = "Idle"
          /\ sparsify_buffer.next_state = "Sparsifying"
          /\ output_buffer.current_state = "Writing"
       THEN LET ob == OutputBuffer_finished_sparsify(output_buffer)
                sb == SparsifyBuffer_finished_sparsify(sparsify_buffer)
            IN IF ob.panic \/ sb.panic \/ ~ IsSome(sparsify_buffer.next_window)
               THEN Panic("H9", "buffer assertion")
               ELSE /\ output_buffer' = ob.b
                    /\ sparsify_buffer' = sb.b
                    /\ Fired("H9", hist)
                    /\ UNCHANGED << sc, state, finished, aborted, input_buffer,
                                    agg_buffer, units, mem_interface, mem, iter,
                                    watchdog >>
       ELSE NotFired("H9")

\* H10
handle_start_writeback ==
    /\ pc = "H10" /\ Running
    /\ IF /\ output_buffer.next_state = "WaitingToWriteBack"
          /\ MemInterface_available(mem_interface)
       THEN IF ~ IsSome(output_buffer.next_window)
            THEN Panic("H10", "unwrap on None")
            ELSE
              LET current_window == Unwrap(output_buffer.next_window)
                  ob == OutputBuffer_start_write_back(output_buffer)
                  layer_id == current_window.task_id.layer_id
                  hw == [ hist EXCEPT !.wb = Some([ window |-> current_window,
                                                    state |-> state ]) ]
                  hb == IF current_window.final_window
                        THEN [ hw EXCEPT !.final_written = @ \cup { layer_id } ]
                        ELSE hw
              IN
              IF current_window.final_layer
              THEN IF ob.panic THEN Panic("H10", "buffer assertion")
                   ELSE /\ state' = IF current_window.final_window THEN "Finished"
                                    ELSE state
                        /\ finished' = IF current_window.final_window THEN TRUE
                                       ELSE finished
                        /\ output_buffer' = ob.b
                        /\ Fired("H10", hb)
                        /\ UNCHANGED << sc, aborted, input_buffer, agg_buffer,
                                        sparsify_buffer, units, mem_interface, mem,
                                        iter, watchdog >>
              ELSE IF current_window.final_window /\ state # "ChangedLayer"
              THEN Panic("H10", "assert_eq!(state, ChangedLayer)")
              ELSE IF ob.panic THEN Panic("H10", "buffer assertion")
              ELSE LET addr_vec == write_addr_vec(sc, current_window) IN
                   /\ mem_interface' = MemInterface_send(mem_interface,
                                           current_window.task_id, addr_vec, TRUE)
                   /\ state' = IF current_window.final_window THEN "Working" ELSE state
                   /\ output_buffer' = ob.b
                   /\ Fired("H10", [ hb EXCEPT !.sent = @ \cup
                                       { [ id |-> current_window.task_id,
                                           addr_vec |-> addr_vec, is_write |-> TRUE ] } ])
                   /\ UNCHANGED << sc, finished, aborted, input_buffer, agg_buffer,
                                   sparsify_buffer, units, mem, iter, watchdog >>
       ELSE NotFired("H10")

\* "did nothings": the watchdog at the end of a cycle in which no handler fired
Watchdog ==
    /\ pc = "idle" /\ Running
    /\ LET count == watchdog.possible_deadloack_count + 1 IN
       IF count = DeadlockCycles
       THEN /\ watchdog' = [ possible_deadloack_count |-> 0,
                             deadlock_count |-> watchdog.deadlock_count + 1 ]
            /\ aborted' = IF watchdog.deadlock_count + 1 = DeadlockEpisodes
                          THEN "deadlock" ELSE "none"
       ELSE /\ watchdog' = [ watchdog EXCEPT !.possible_deadloack_count = count ]
            /\ UNCHANGED aborted
    /\ pc' = "cycle"
    /\ hist' = [ hist EXCEPT !.last = "none", !.idle_run = @ + 1, !.cycled = {} ]
    /\ UNCHANGED << sc, state, finished, bufs, units, mem_interface, mem, iter >>

Next ==
    \/ ComponentsCycle
    \/ handle_input_buffer_add_task
    \/ handle_input_buffer_to_mem
    \/ handle_mem_to_input_buffer
    \/ handle_start_aggregator
    \/ handle_finish_aggregator
    \/ handle_start_mlp
    \/ handle_finish_mlp
    \/ handle_start_sparsify
    \/ handle_finish_sparsify
    \/ handle_start_writeback
    \/ Watchdog

\* System::run from the state System::new leaves
Spec == Init /\ [][Next]_vars

\* System::run keeps calling cycle() until the run is finished or has panicked:
\* a step that can be taken is taken.  The oracle is fair by its stall budget.
FairSpec == Init /\ [][Next]_vars /\ WF_vars(Next)

-----------------------------------------------------------------------------
(* The memory interface on its own, driven as test_mem_interface drives    *)
(* it: send while available(), cycle, receive_pop                          *)

MemAddrVecs == { << >>, << 0 >>, << 64 >>, << 0, 64 >> }

InitMem ==
    /\ sc = ScDense
    /\ state = "Working"
    /\ finished = FALSE
    /\ pc = "mem_interface"
    /\ aborted = "none"
    /\ input_buffer = InputBuffer_new
    /\ agg_buffer = AggBuffer_new(get_num_node(sc), FALSE)
    /\ sparsify_buffer = SparsifyBuffer_new
    /\ output_buffer = OutputBuffer_new
    /\ aggregator = Unit_new
    /\ mlp = Unit_new
    /\ sparsifier = Unit_new
    /\ mem_interface = MemInterface_new(TestSendSize, TestRecvSize)
    /\ mem = Oracle_new
    /\ iter = System_new(sc).iter
    /\ watchdog = [ possible_deadloack_count |-> 0, deadlock_count |-> 0 ]
    /\ hist = HistInit

\* mem_interface.send(id, addr_vec, is_write), the k-th call with id (0, 0, k)
MemSend ==
    /\ pc = "mem_interface" /\ aborted = "none"
    /\ Cardinality(hist.sent) < MaxSend
    /\ MemInterface_available(mem_interface)
    /\ \E addr_vec \in MemAddrVecs, is_write \in BOOLEAN :
         LET id == WindowId(0, 0, Cardinality(hist.sent)) IN
         /\ mem_interface' = MemInterface_send(mem_interface, id, addr_vec, is_write)
         /\ hist' = [ hist EXCEPT !.sent = @ \cup
                        { [ id |-> id, addr_vec |-> addr_vec, is_write |-> is_write ] } ]
    /\ UNCHANGED << sc, state, finished, pc, aborted, bufs, units, mem, iter, watchdog >>

\* mem_interface.send(id, addr_vec, is_write) by a caller that did not ask
\* available() first, while the send queue is full
MemSendUnchecked ==
    /\ pc = "mem_interface" /\ aborted = "none"
    /\ Cardinality(hist.sent) < MaxSend
    /\ ~ MemInterface_available(mem_interface)
    /\ \E addr_vec \in MemAddrVecs, is_write \in BOOLEAN :
         LET id == WindowId(0, 0, Cardinality(hist.sent)) IN
         /\ mem_interface' = MemInterface_send(mem_interface, id, addr_vec, is_write)
         /\ hist' = [ hist EXCEPT !.sent = @ \cup
                        { [ id |-> id, addr_vec |-> addr_vec, is_write |-> is_write ] } ]
    /\ UNCHANGED << sc, state, finished, pc, aborted, bufs, units, mem, iter, watchdog >>

\* mem_interface.cycle()
MemCycle ==
    /\ pc = "mem_interface" /\ aborted = "none"
    /\ \E o \in CycleOutcomes(mem_interface, mem) :
         /\ mem_interface' = o.r.mi
         /\ mem' = o.mem
         /\ aborted' = o.r.panic
         /\ hist' = HistMem(hist, o.r)
    /\ UNCHANGED << sc, state, finished, pc, bufs, units, iter, watchdog >>

\* mem_interface.receive_pop() returning Some
MemReceivePop ==
    /\ pc = "mem_interface" /\ aborted = "none"
    /\ IsSome(MemInterface_receive(mem_interface))
    /\ mem_interface' = MemInterface_receive_pop(mem_interface)
    /\ hist' = [ hist EXCEPT !.popped =
                    Append(@, Unwrap(MemInterface_receive(mem_interface))) ]
    /\ UNCHANGED << sc, state, finished, pc, aborted, bufs, units, mem, iter, watchdog >>

NextMem == MemSend \/ MemSendUnchecked \/ MemCycle \/ MemReceivePop

SpecMem == InitMem /\ [][NextMem]_vars

-----------------------------------------------------------------------------
(* One stage buffer on its own, with a caller that may call any transition *)
(* method in any state.  pc names the buffer under test; hist.call records *)
(* the last call: the buffer before and after it and whether it panicked.  *)

BufWindows == { [ task_id |-> WindowId(0, 0, 0) ], [ task_id |-> WindowId(0, 0, 1) ] }

BufferNames == { "input_buffer", "agg_buffer", "sparsify_buffer", "output_buffer" }

InitBuf ==
    /\ sc = ScDense
    /\ state = "Working"
    /\ finished = FALSE
    /\ pc \in BufferNames
    /\ aborted = "none"
    /\ input_buffer = InputBuffer_new
    /\ agg_buffer = AggBuffer_new(1, TRUE)
    /\ sparsify_buffer = SparsifyBuffer_new
    /\ output_buffer = OutputBuffer_new
    /\ aggregator = Unit_new
    /\ mlp = Unit_new
    /\ sparsifier = Unit_new
    /\ mem_interface = MemInterface_new(SendSize, RecvSize)
    /\ mem = Oracle_new
    /\ iter = System_new(sc).iter
    /\ watchdog = [ possible_deadloack_count |-> 0, deadlock_count |-> 0 ]
    /\ hist = HistInit

\* a method that always returns, as a [panic, b] result
Returns(b) == [ panic |-> FALSE, b |-> b ]

\* the call `method(arg)` on buffer `name` took it from pre to res.b, or
\* panicked
Called(name, method, arg, pre, res) ==
    /\ pc = name /\ aborted = "none"
    /\ hist' = [ hist EXCEPT !.call = Some([ buffer |-> name, method |-> method,
                                             arg |-> arg, pre |-> pre, post |-> res.b,
                                             panicked |-> res.panic ]) ]
    /\ aborted' = IF res.panic THEN "buffer assertion" ELSE "none"
    /\ UNCHANGED << sc, state, finished, pc, units, mem_interface, mem, iter, watchdog >>

InputCall(method, arg, res) ==
    /\ Called("input_buffer", method, arg, input_buffer, res)
    /\ input_buffer' = res.b
    /\ UNCHANGED << agg_buffer, sparsify_buffer, output_buffer >>

AggCall(method, arg, res) ==
    /\ Called("agg_buffer", method, arg, agg_buffer, res)
    /\ agg_buffer' = res.b
    /\ UNCHANGED << input_buffer, sparsify_buffer, output_buffer >>

SparsifyCall(method, arg, res) ==
    /\ Called("sparsify_buffer", method, arg, sparsify_buffer, res)
    /\ sparsify_buffer' = res.b
    /\ UNCHANGED << input_buffer, agg_buffer, output_buffer >>

OutputCall(method, arg, res) ==
    /\ Called("output_buffer", method, arg, output_buffer, res)
    /\ output_buffer' = res.b
    /\ UNCHANGED << input_buffer, agg_buffer, sparsify_buffer >>

BufInputCycle == InputCall("cycle", None, Returns(InputBuffer_cycle(input_buffer)))

BufInputAddTaskToCurrent ==
    \E w \in BufWindows :
        InputCall("add_task_to_current", w,
                  Returns(InputBuffer_add_task_to_current(input_buffer, w)))

BufInputAddTaskToNext ==
    \E w \in BufWindows :
        InputCall("add_task_to_next", w,
                  Returns(InputBuffer_add_task_to_next(input_buffer, w)))

BufInputSendReq ==
    \E is_current \in BOOLEAN :
        InputCall("send_req", is_current,
                  Returns(InputBuffer_send_req(input_buffer, is_current)))

BufInputReceive ==
    \E w \in BufWindows :
        InputCall("receive", w.task_id, InputBuffer_receive(input_buffer, w.task_id))

BufInputStartAggragating ==
    InputCall("start_aggragating", None,
              Returns(InputBuffer_start_aggragating(input_buffer)))

BufInputFinishedAggregation ==
    InputCall("finished_aggregation", None,
              Returns(InputBuffer_finished_aggregation(input_buffer)))

BufAggCycle == AggCall("cycle", None, Returns(AggBuffer_cycle(agg_buffer)))

BufAggAddTask ==
    \E w \in BufWindows :
        AggCall("add_task", w, Returns(AggBuffer_add_task(agg_buffer, w)))

\* the aggregator writing through get_current_temp_result_mut
BufAggWriteTemp ==
    /\ IsSome(agg_buffer.current_temp_result)
    /\ Unwrap(agg_buffer.current_temp_result)[0] = {}
    /\ AggCall("get_current_temp_result_mut", None,
               Returns([ agg_buffer EXCEPT !.current_temp_result = Some([ i \in {0} |-> {0} ]) ]))

BufAggFinishedAggregation ==
    AggCall("finished_aggregation", None,
            Returns(AggBuffer_finished_aggregation(agg_buffer)))

BufAggStartMlp == AggCall("start_mlp", None, AggBuffer_start_mlp(agg_buffer))

BufAggFinishedMlp == AggCall("finished_mlp", None, AggBuffer_finished_mlp(agg_buffer))

BufSparsifyCycle ==
    SparsifyCall("cycle", None, Returns(SparsifyBuffer_cycle(sparsify_buffer)))

BufSparsifyStartMlp ==
    \E w \in BufWindows :
        SparsifyCall("start_mlp", w, SparsifyBuffer_start_mlp(sparsify_buffer, w))

BufSparsifyFinishedMlp ==
    SparsifyCall("finished_mlp", None, SparsifyBuffer_finished_mlp(sparsify_buffer))

BufSparsifyStartSparsify ==
    SparsifyCall("start_sparsify", None, SparsifyBuffer_start_sparsify(sparsify_buffer))

BufSparsifyFinishedSparsify ==
    SparsifyCall("finished_sparsify", None,
                 SparsifyBuffer_finished_sparsify(sparsify_buffer))

BufOutputCycle == OutputCall("cycle", None, Returns(OutputBuffer_cycle(output_buffer)))

BufOutputStartSparsify ==
    \E w \in BufWindows :
        OutputCall("start_sparsify", w, OutputBuffer_start_sparsify(output_buffer, w))

BufOutputFinishedSparsify ==
    OutputCall("finished_sparsify", None, OutputBuffer_finished_sparsify(output_buffer))

BufOutputStartWriteBack ==
    OutputCall("start_write_back", None, OutputBuffer_start_write_back(output_buffer))

NextBuf ==
    \/ BufInputCycle
    \/ BufInputAddTaskToCurrent
    \/ BufInputAddTaskToNext
    \/ BufInputSendReq
    \/ BufInputReceive
    \/ BufInputStartAggragating
    \/ BufInputFinishedAggregation
    \/ BufAggCycle
    \/ BufAggAddTask
    \/ BufAggWriteTemp
    \/ BufAggFinishedAggregation
    \/ BufAggStartMlp
    \/ BufAggFinishedMlp
    \/ BufSparsifyCycle
    \/ BufSparsifyStartMlp
    \/ BufSparsifyFinishedMlp
    \/ BufSparsifyStartSparsify
    \/ BufSparsifyFinishedSparsify
    \/ BufOutputCycle
    \/ BufOutputStartSparsify
    \/ BufOutputFinishedSparsify
    \/ BufOutputStartWriteBack

SpecBuf == InitBuf /\ [][NextBuf]_vars

-----------------------------------------------------------------------------
(* The window cursor on its own: System::new builds the first window, and  *)
(* every step takes the current window and moves to the next one, as       *)
(* handle_input_buffer_add_task does.  hist.yielded lists the windows      *)
(* taken.                                                                  *)

\* the number of nodes of the graphs of the family
WinNodes == 3

\* the largest number of edges of the graphs of the family
WinMaxEdges == 3

\* the graph and the two feature files of sliding_window_test_multi
ScTestMulti ==
    [ name |-> "test_multi", num_node |-> 5, feature_size |-> 6,
      csc |-> << {1, 2}, {2, 3, 4}, {0, 1, 4}, {0, 2, 4}, {2, 4} >>,
      features |-> << << {0, 1, 4, 5}, {0, 3, 4, 5}, {0, 1, 2, 5}, {0, 1, 2, 5},
                         {0, 1, 2, 5} >>,
                      << {0, 1}, {0, 1}, {0, 1}, {0, 1}, {0, 1} >> >>,
      gcn_hidden_size |-> << 2 >>,
      agg_buffer_size |-> 48, input_buffer_size |-> 32,
      running_mode |-> "Sparse",
      sparse_cores |-> 1, dense_cores |-> 1, dense_width |-> 1,
      systolic_rows |-> 2, systolic_cols |-> 2, mlp_sparse_cores |-> 2 ]

\* every graph of WinNodes nodes and at most WinMaxEdges edges, with two
\* layers of features (one or two non-zero features per node in layer 0, one
\* in layer 1) and three settings of the buffer sizes: one output node and one
\* or two input rows per window in layer 0, two output nodes and two input
\* rows, or one output node and half an input buffer that holds a row of one
\* feature only; the scenarios of the System runs and the test graph are added
WinScenarios ==
    { [ name |-> "family", num_node |-> WinNodes, feature_size |-> 2,
        csc |-> g,
        features |-> << [ i \in 1 .. WinNodes |-> 0 .. ((i - 1) % 2) ],
                        [ i \in 1 .. WinNodes |-> {0} ] >>,
        gcn_hidden_size |-> << c[3] >>,
        agg_buffer_size |-> c[1], input_buffer_size |-> c[2],
        running_mode |-> "Sparse",
        sparse_cores |-> 1, dense_cores |-> 1, dense_width |-> 1,
        systolic_rows |-> 2, systolic_cols |-> 2, mlp_sparse_cores |-> 2 ] :
        g \in { f \in [ 1 .. WinNodes -> SUBSET (0 .. WinNodes - 1) ] :
                  SumOver([ j \in 1 .. WinNodes |-> Cardinality(f[j]) ], 1 .. WinNodes)
                      <= WinMaxEdges },
        c \in { << 16, 16, 2 >>, << 32, 24, 1 >>, << 16, 8, 2 >> } }
    \cup Scenarios \cup { ScTestMulti }

InitWin ==
    /\ sc \in { s \in WinScenarios : System_new(s).ok }
    /\ state = "Working"
    /\ finished = FALSE
    /\ pc = "window_cursor"
    /\ aborted = "none"
    /\ input_buffer = InputBuffer_new
    /\ agg_buffer = AggBuffer_new(get_num_node(sc), TRUE)
    /\ sparsify_buffer = SparsifyBuffer_new
    /\ output_buffer = OutputBuffer_new
    /\ aggregator = Unit_new
    /\ mlp = Unit_new
    /\ sparsifier = Unit_new
    /\ mem_interface = MemInterface_new(SendSize, RecvSize)
    /\ mem = Oracle_new
    /\ iter = System_new(sc).iter
    /\ watchdog = [ possible_deadloack_count |-> 0, deadlock_count |-> 0 ]
    /\ hist = HistInit

\* self.current_window.take().unwrap(); self.move_to_next_window()
WinTake ==
    /\ pc = "window_cursor" /\ aborted = "none"
    /\ IsSome(iter.current_window)
    /\ LET m == move_to_next_window(sc, [ iter EXCEPT !.current_window = None ], state)
       IN /\ iter' = m.iter
          /\ state' = m.state
          /\ aborted' = m.panic
    /\ hist' = [ hist EXCEPT !.yielded = Append(@, Unwrap(iter.current_window)) ]
    /\ UNCHANGED << sc, finished, pc, bufs, units, mem_interface, mem, watchdog >>

NextWin == WinTake

SpecWin == InitWin /\ [][NextWin]_vars

-----------------------------------------------------------------------------
(* One compute unit on its own: the aggregator or the MLP is started on a    *)
(* window of the graph, cycled and reset.  pc names the unit under test;     *)
(* hist.call records the start: the window, the partial sets before it, the  *)
(* cycle count it set and the number of cycle() calls since.                 *)

UnitMaxCores == 3

\* the graph, features and partial sets of test_sparse_add and
\* test_sparse_add_single_output
ScTestAgg ==
    [ name |-> "test_sparse_add", num_node |-> 3, feature_size |-> 6,
      csc |-> << {0, 1}, {1, 2}, {0, 1, 2} >>,
      features |-> << << {2, 4}, {0, 3, 4, 5}, {0, 1, 5} >> >>,
      gcn_hidden_size |-> << >>,
      agg_buffer_size |-> 144, input_buffer_size |-> 72,
      running_mode |-> "Sparse",
      sparse_cores |-> 2, dense_cores |-> 2, dense_width |-> 2,
      systolic_rows |-> 2, systolic_cols |-> 2, mlp_sparse_cores |-> 2 ]

\* the test graph in both running modes, with one to UnitMaxCores cores of
\* each kind and with buffers that hold the whole graph or a part of it
UnitScenarios ==
    { [ ScTestAgg EXCEPT !.name = "unit_family",
                         !.running_mode = m,
                         !.sparse_cores = c, !.dense_cores = c, !.mlp_sparse_cores = c,
                         !.dense_width = b[3],
                         !.agg_buffer_size = b[1], !.input_buffer_size = b[2] ] :
        m \in { "Sparse", "Dense" }, c \in 1 .. UnitMaxCores,
        b \in { << 144, 72, 2 >>, << 48, 72, 1 >>, << 96, 32, 1 >> } }
    \cup { ScTestAgg }

\* the partial sets a unit test starts from: the sets of test_sparse_add, or
\* all empty
UnitTemps(s) ==
    IF s.running_mode = "Sparse"
    THEN { Some([ i \in 0 .. get_num_node(s) - 1 |-> {} ]),
           Some([ i \in 0 .. get_num_node(s) - 1 |-> IF i < 2 THEN {0, 3, 5} ELSE {} ]) }
    ELSE { None }

\* every InputWindow the cursor of the System yields for scenario s
RECURSIVE WindowsFrom(_, _, _)
WindowsFrom(s, it, st) ==
    IF ~ IsSome(it.current_window) THEN {}
    ELSE LET m == move_to_next_window(s, [ it EXCEPT !.current_window = None ], st)
         IN { Unwrap(it.current_window) }
                \cup (IF m.panic # "none" THEN {} ELSE WindowsFrom(s, m.iter, m.state))

UnitWindows(s) == WindowsFrom(s, System_new(s).iter, "Working")

InitUnit ==
    /\ sc \in { s \in UnitScenarios : System_new(s).ok }
    /\ state = "Working"
    /\ finished = FALSE
    /\ pc \in { "aggregator", "mlp" }
    /\ aborted = "none"
    /\ input_buffer = InputBuffer_new
    /\ agg_buffer \in { [ AggBuffer_new(get_num_node(sc), sc.running_mode = "Sparse")
                            EXCEPT !.current_temp_result = t ] : t \in UnitTemps(sc) }
    /\ sparsify_buffer = SparsifyBuffer_new
    /\ output_buffer = OutputBuffer_new
    /\ aggregator = Unit_new
    /\ mlp = Unit_new
    /\ sparsifier = Unit_new
    /\ mem_interface = MemInterface_new(SendSize, RecvSize)
    /\ mem = Oracle_new
    /\ iter = System_new(sc).iter
    /\ watchdog = [ possible_deadloack_count |-> 0, deadlock_count |-> 0 ]
    /\ hist = HistInit

\* the record of a start: unit u was started on window w with partial sets t
\* and set its counter to cycles
UnitCall(u, w, t, cycles) ==
    Some([ unit |-> u, window |-> w, temp |-> t, cycles |-> cycles, ticks |-> 0 ])

\* aggregator.add_task(window, features, temp_agg_result) on an Idle
\* aggregator, or mlp.start_mlp(output_window, temp_agg_result) on an Idle MLP
UnitStart ==
    /\ aborted = "none"
    /\ \E w \in UnitWindows(sc) :
         \/ /\ pc = "aggregator" /\ aggregator.state = "Idle"
            /\ LET r == Aggregator_add_task(sc, aggregator, w, agg_buffer.current_temp_result)
               IN /\ aggregator' = r.u
                  /\ agg_buffer' = [ agg_buffer EXCEPT !.current_temp_result = r.temp ]
                  /\ hist' = [ hist EXCEPT !.call =
                                 UnitCall("aggregator", w, agg_buffer.current_temp_result,
                                          r.u.remaining_cycle) ]
            /\ UNCHANGED mlp
         \/ /\ pc = "mlp" /\ mlp.state = "Idle"
            /\ LET u == Mlp_start_mlp(sc, mlp, w.output_window, agg_buffer.current_temp_result)
               IN /\ mlp' = u
                  /\ hist' = [ hist EXCEPT !.call =
                                 UnitCall("mlp", w, agg_buffer.current_temp_result,
                                          u.remaining_cycle) ]
            /\ UNCHANGED << aggregator, agg_buffer >>
    /\ UNCHANGED << sc, state, finished, pc, aborted, input_buffer, sparsify_buffer,
                    output_buffer, sparsifier, mem_interface, mem, iter, watchdog >>

\* aggregator.cycle() or mlp.cycle(), in any state of the unit
UnitCycle ==
    /\ pc \in { "aggregator", "mlp" } /\ aborted = "none"
    /\ aggregator' = IF pc = "aggregator" THEN Aggregator_cycle(aggregator) ELSE aggregator
    /\ mlp' = IF pc = "mlp" THEN Mlp_cycle(mlp) ELSE mlp
    /\ IsSome(hist.call) => Unwrap(hist.call).ticks <= Unwrap(hist.call).cycles + 1
    /\ hist' = IF IsSome(hist.call)
               THEN [ hist EXCEPT !.call = Some([ Unwrap(@) EXCEPT !.ticks = @ + 1 ]) ]
               ELSE hist
    /\ UNCHANGED << sc, state, finished, pc, aborted, bufs, sparsifier, mem_interface,
                    mem, iter, watchdog >>

\* aggregator.finished_aggregation() or mlp.finished_mlp() on a Finished unit
UnitFinished ==
    /\ aborted = "none"
    /\ \/ /\ pc = "aggregator" /\ aggregator.state = "Finished"
          /\ aggregator' = Aggregator_finished_aggregation(aggregator)
          /\ UNCHANGED mlp
       \/ /\ pc = "mlp" /\ mlp.state = "Finished"
          /\ mlp' = Mlp_finished_mlp(mlp)
          /\ UNCHANGED aggregator
    /\ hist' = [ hist EXCEPT !.call = None ]
    /\ UNCHANGED << sc, state, finished, pc, aborted, bufs, sparsifier, mem_interface,
                    mem, iter, watchdog >>

NextUnit == UnitStart \/ UnitCycle \/ UnitFinished

SpecUnit == InitUnit /\ [][NextUnit]_vars

-----------------------------------------------------------------------------
(* Properties *)

\* C1: a run never aborts, neither by a panic nor by the deadlock watchdog,
\* on its way to Finished.
C1_RunNeverAborts == aborted = "none"

\* the number of times id was pushed to the receive queue
PushCount(id) == Cardinality({ i \in 1 .. Len(hist.pushed) : hist.pushed[i] = id })

\* C2: the id of a read request is pushed to the receive queue at most once,
\* and only when every address of its address vector has been registered at
\* the oracle and returned.
C2_PushedOnceWhenAllReturned ==
    \A r \in hist.sent :
        ~ r.is_write =>
            /\ PushCount(r.id) <= 1
            /\ PushCount(r.id) >= 1 =>
                   \A k \in 1 .. Len(r.addr_vec) :
                       /\ << r.id, r.addr_vec[k] >> \in hist.registered
                       /\ << r.id, r.addr_vec[k] >> \in hist.done

\* the interface still holds the request: in the send queue, in the map of
\* waiting requests or in the receive queue
HeldByInterface(id) ==
    \/ \E i \in 1 .. Len(mem_interface.send_queue) : mem_interface.send_queue[i].id = id
    \/ id \in DOMAIN mem_interface.current_waiting_request
    \/ id \in Range(mem_interface.recv_queue)

\* C3: round trip.  A request that was sent and has not been returned by
\* receive_pop yet is still held by the interface (a request it holds no
\* longer can never be returned), and every id receive_pop returned was sent.
C3_RoundTrip ==
    /\ \A r \in hist.sent : r.id \in Range(hist.popped) \/ HeldByInterface(r.id)
    /\ Range(hist.popped) \subseteq { r.id : r \in hist.sent }

\* the number of slots of buffer b whose state is in S
SlotsIn(b, S) ==
    (IF b.current_state \in S THEN 1 ELSE 0) + (IF b.next_state \in S THEN 1 ELSE 0)

\* C4 as stated: at a cycle boundary every buffer has at most one slot in a
\* producer state and at most one in a consumer state.
C4_OneProducerOneConsumer ==
    pc = "cycle" =>
        /\ SlotsIn(input_buffer, { "WaitingToLoad", "Loading" }) <= 1
        /\ SlotsIn(input_buffer, { "Reading" }) <= 1
        /\ SlotsIn(agg_buffer, { "Writing" }) <= 1
        /\ SlotsIn(agg_buffer, { "Mlp" }) <= 1
        /\ SlotsIn(sparsify_buffer, { "Writing" }) <= 1
        /\ SlotsIn(sparsify_buffer, { "Sparsifying" }) <= 1
        /\ SlotsIn(output_buffer, { "Writing" }) <= 1

\* C4, amended: at a cycle boundary the Agg, Sparsify and Output buffers have
\* at most one slot in their producer state (Writing) and at most one in
\* their consumer state, and the Input buffer has at most one slot Reading;
\* the Input buffer may hold both of its slots in WaitingToLoad or Loading.
C4_OneProducerOneConsumer_Amended ==
    pc = "cycle" =>
        /\ SlotsIn(input_buffer, { "Reading" }) <= 1
        /\ SlotsIn(agg_buffer, { "Writing" }) <= 1
        /\ SlotsIn(agg_buffer, { "Mlp" }) <= 1
        /\ SlotsIn(sparsify_buffer, { "Writing" }) <= 1
        /\ SlotsIn(sparsify_buffer, { "Sparsifying" }) <= 1
        /\ SlotsIn(output_buffer, { "Writing" }) <= 1

\* a cycle boundary at which the agg buffer has a producer slot and a
\* consumer slot, the input buffer a consumer slot and the sparsify buffer a
\* producer slot
C4_Witness ==
    /\ pc = "cycle"
    /\ agg_buffer.current_state = "Writing"
    /\ agg_buffer.next_state = "Mlp"
    /\ input_buffer.current_state = "Reading"
    /\ sparsify_buffer.current_state = "Writing"

\* C5: no assertion or panic inside a buffer method is reached in a run,
\* InputBuffer::receive finding no Loading slot for the id included.
C5_NoBufferPanic ==
    aborted \notin { "no loading window for the request", "buffer assertion",
                     "window should not be None!!" }

\* the buffer with its two slots exchanged: state, window and, where the
\* buffer has one, temp result
Exchanged(b) ==
    [ x \in DOMAIN b |->
        CASE x = "current_state" -> b.next_state
          [] x = "next_state" -> b.current_state
          [] x = "current_window" -> b.next_window
          [] x = "next_window" -> b.current_window
          [] x = "current_temp_result" -> b.next_temp_result
          [] x = "next_temp_result" -> b.current_temp_result ]

\* the rotation rule of the buffer called name
Rotates(name, b) ==
    CASE name = "input_buffer" -> b.current_state = "Empty" /\ b.next_state # "Empty"
      [] name = "agg_buffer" ->
             b.current_state = "WaitingToMlp" /\ b.next_state = "Empty"
      [] name = "sparsify_buffer" ->
             b.current_state = "WaitingToSparsify" /\ b.next_state = "Empty"
      [] name = "output_buffer" ->
             b.current_state = "WaitingToWriteBack" /\ b.next_state = "Empty"

LoadingFor(st, window, id) == st = "Loading" /\ IsSome(window) /\ Unwrap(window).task_id = id

\* the call c finds the slot it acts on in the predecessor state of the
\* transition
InPredecessorState(c) ==
    CASE c.method \in { "cycle", "get_current_temp_result_mut" } -> TRUE
      [] c.buffer = "input_buffer" /\ c.method = "add_task_to_current" ->
             c.pre.current_state = "Empty"
      [] c.buffer = "input_buffer" /\ c.method = "add_task_to_next" ->
             c.pre.next_state = "Empty"
      [] c.buffer = "input_buffer" /\ c.method = "send_req" ->
             IF c.arg THEN c.pre.current_state = "WaitingToLoad"
             ELSE c.pre.next_state = "WaitingToLoad"
      [] c.buffer = "input_buffer" /\ c.method = "receive" ->
             \/ LoadingFor(c.pre.current_state, c.pre.current_window, c.arg)
             \/ LoadingFor(c.pre.next_state, c.pre.next_window, c.arg)
      [] c.buffer = "input_buffer" /\ c.method = "start_aggragating" ->
             c.pre.current_state = "Ready"
      [] c.buffer = "input_buffer" /\ c.method = "finished_aggregation" ->
             c.pre.current_state = "Reading"
      [] c.buffer = "agg_buffer" /\ c.method = "add_task" ->
             c.pre.current_state \in { "Empty", "Writing" }
      [] c.buffer = "agg_buffer" /\ c.method = "finished_aggregation" ->
             c.pre.current_state = "Writing"
      [] c.buffer = "agg_buffer" /\ c.method = "start_mlp" ->
             c.pre.next_state = "WaitingToMlp"
      [] c.buffer = "agg_buffer" /\ c.method = "finished_mlp" ->
             c.pre.next_state = "Mlp"
      [] c.buffer = "sparsify_buffer" /\ c.method = "start_mlp" ->
             c.pre.current_state = "Empty"
      [] c.buffer = "sparsify_buffer" /\ c.method = "finished_mlp" ->
             c.pre.current_state = "Writing"
      [] c.buffer = "sparsify_buffer" /\ c.method = "start_sparsify" ->
             c.pre.next_state = "WaitingToSparsify"
      [] c.buffer = "sparsify_buffer" /\ c.method = "finished_sparsify" ->
             c.pre.next_state = "Sparsifying"
      [] c.buffer = "output_buffer" /\ c.method = "start_sparsify" ->
             c.pre.current_state = "Empty"
      [] c.buffer = "output_buffer" /\ c.method = "finished_sparsify" ->
             c.pre.current_state = "Writing"
      [] c.buffer = "output_buffer" /\ c.method = "start_write_back" ->
             c.pre.next_state = "WaitingToWriteBack"

\* C7: a transition method called on a slot that is not in the predecessor
\* state of the transition aborts and leaves the buffer as it was.
C7_TransitionsCheckPredecessor ==
    IsSome(hist.call) /\ ~ InPredecessorState(Unwrap(hist.call)) =>
        /\ Unwrap(hist.call).panicked
        /\ Unwrap(hist.call).post = Unwrap(hist.call).pre

\* the handlers a cycle that starts in state st evaluates, in order
EvaluationOrder(st) ==
    IF st = "Working"
    THEN << "H1", "H2", "H3", "H4", "H5", "H6", "H7", "H8", "H9", "H10" >>
    ELSE << "H2", "H3", "H4", "H5", "H6", "H7", "H8", "H9", "H10" >>

IsPrefix(p, q) == Len(p) <= Len(q) /\ SubSeq(q, 1, Len(p)) = p

\* C8: inside a cycle all eight components have cycled before a handler is
\* evaluated, the handlers evaluated so far are a prefix of the fixed order
\* (without H1 unless the cycle started in Working), the next one evaluated
\* is the next of that order, and no handler has fired; a cycle ends with
\* the handler that fired, which is the only one that fired and the last one
\* evaluated, or after all handlers were evaluated and none fired.
C8_OneHandlerPerCycle ==
    aborted = "none" =>
        LET order == EvaluationOrder(hist.cycle_state) IN
        /\ hist.fired_in_cycle <= 1
        /\ IsPrefix(hist.evals, order)
        /\ pc # "cycle" =>
               /\ hist.cycled = { "aggregator", "mem_interface", "agg_buffer",
                                  "input_buffer", "output_buffer", "sparsifier",
                                  "sparsify_buffer", "mlp" }
               /\ hist.fired_in_cycle = 0
               /\ pc = IF hist.evals = order THEN "idle"
                       ELSE order[Len(hist.evals) + 1]
        /\ pc = "cycle" /\ hist.fired_in_cycle = 1 =>
               hist.evals # << >> /\ hist.evals[Len(hist.evals)] = hist.last
        /\ pc = "cycle" /\ hist.fired_in_cycle = 0 =>
               hist.evals = << >> \/ (hist.evals = order /\ hist.last = "none")

\* a cycle that started in ChangedLayer, evaluated H2 .. H10 and ended with
\* handle_start_writeback firing
C8_Witness ==
    /\ aborted = "none"
    /\ pc = "cycle"
    /\ hist.cycle_state = "ChangedLayer"
    /\ hist.last = "H10"
    /\ hist.fired_in_cycle = 1
    /\ Len(hist.evals) = 9

\* C9: the watchdog counts consecutive idle cycles.  After a cycle in which
\* a handler fired its idle counter is zero, and the run aborts with
\* "deadlock" only at the end of a window of DeadlockCycles idle cycles.
C9_WatchdogCountsConsecutiveIdle ==
    /\ pc = "cycle" /\ hist.last # "none" => watchdog.possible_deadloack_count = 0
    /\ aborted = "deadlock" => hist.idle_run >= DeadlockCycles

\* the windows the input buffer holds or held last
InputBufferWindows ==
    { Unwrap(w) : w \in { x \in { input_buffer.current_window, input_buffer.next_window } :
                            IsSome(x) } }

\* C10: the layer barrier.  A window of layer L+1 is in the input buffer only
\* after handle_start_writeback fired for the final_window of layer L; from
\* the moment the window cursor has left a non-final layer until then the
\* state is ChangedLayer, and in ChangedLayer H1 is not evaluated; when H10
\* fires for the final_window of a non-final layer it finds the state
\* ChangedLayer and leaves it Working.
C10_LayerBarrier ==
    /\ \A w \in InputBufferWindows :
           w.task_id.layer_id > 0 => (w.task_id.layer_id - 1) \in hist.final_written
    /\ state = "ChangedLayer" => pc # "H1"
    /\ ( /\ iter.current_layer > 0
         /\ iter.current_layer < gcn_layer_num(sc)
         /\ (iter.current_layer - 1) \notin hist.final_written )
           => state = "ChangedLayer"
    /\ aborted # "assert_eq!(state, ChangedLayer)"
    /\ ( /\ pc = "cycle" /\ hist.last = "H10" /\ IsSome(hist.wb)
         /\ Unwrap(hist.wb).window.final_window
         /\ ~ Unwrap(hist.wb).window.final_layer )
           => Unwrap(hist.wb).state = "ChangedLayer" /\ state = "Working"

\* handle_start_writeback has fired for the final_window of layer 0 and a
\* window of layer 1 is in the input buffer
C10_Witness ==
    /\ 0 \in hist.final_written
    /\ IsSome(hist.wb)
    /\ Unwrap(hist.wb).state = "ChangedLayer"
    /\ \E w \in InputBufferWindows : w.task_id.layer_id = 1

\* handle_start_writeback returned true in this step
WritebackFired == pc = "H10" /\ pc' = "cycle"

\* C11: when handle_start_writeback fires for a window with final_layer it
\* sends nothing to the memory interface and only sets the next slot of the
\* output buffer to Empty; the state becomes Finished, and finished true, in
\* exactly the steps in which it fires for a window with final_layer and
\* final_window; finished is true in state Finished only.
C11_FinalLayerWriteback ==
    /\ [](finished <=> state = "Finished")
    /\ [][ LET w == Unwrap(output_buffer.next_window) IN
           /\ (WritebackFired /\ w.final_layer) =>
                  /\ mem_interface' = mem_interface
                  /\ mem' = mem
                  /\ hist'.sent = hist.sent
                  /\ output_buffer' = [ output_buffer EXCEPT !.next_state = "Empty" ]
                  /\ UNCHANGED << input_buffer, agg_buffer, sparsify_buffer, units, iter >>
           /\ (state' = "Finished" /\ state # "Finished")
                  <=> (WritebackFired /\ w.final_layer /\ w.final_window)
           /\ (finished' /\ ~ finished)
                  <=> (WritebackFired /\ w.final_layer /\ w.final_window) ]_vars

\* the run has finished with the write back of the final window of the final
\* layer, for which no write request was sent
C11_Witness ==
    /\ state = "Finished" /\ finished
    /\ hist.last = "H10"
    /\ IsSome(hist.wb)
    /\ Unwrap(hist.wb).window.final_layer /\ Unwrap(hist.wb).window.final_window
    /\ Unwrap(hist.wb).window.task_id.layer_id = 1
    /\ output_buffer.next_state = "Empty" /\ IsSome(output_buffer.next_window)
    /\ ~ \E r \in hist.sent : r.is_write /\ r.id.layer_id = 1

\* the outer windows the OutputWindowIterator `it` produces from here on, as
\* the InputWindowIterators it returns
RECURSIVE OutersFrom(_, _)
OutersFrom(s, it) ==
    LET o == OutputWindowIterator_next(s, it) IN
    IF o.kind # "Some" THEN {} ELSE { Unwrap(o.item) } \cup OutersFrom(s, o.it)

\* the outer windows of all layers
Outers(s) ==
    UNION { OutersFrom(s, OutputWindowIterator_new(l, l = gcn_layer_num(s) - 1)) :
              l \in 0 .. gcn_layer_num(s) - 1 }

\* the window cursor has left the outer window o
PastOuter(o) ==
    \/ ~ IsSome(iter.current_window)
    \/ Unwrap(iter.current_window).task_id.layer_id > o.task_id.layer_id
    \/ /\ Unwrap(iter.current_window).task_id.layer_id = o.task_id.layer_id
       /\ Unwrap(iter.current_window).task_id.output_id > o.task_id.output_id

\* the InputWindows yielded for the outer window o, in order
WindowsOf(o) ==
    SelectSeq(hist.yielded,
              LAMBDA w : /\ w.task_id.layer_id = o.task_id.layer_id
                         /\ w.task_id.output_id = o.task_id.output_id)

\* C12: once the cursor has left an outer window, exactly one of the
\* InputWindows yielded for it has is_last_row, and it is the last one.
C12_ExactlyOneLastRow ==
    aborted = "none" =>
        \A o \in Outers(sc) :
            PastOuter(o) =>
                LET ws == WindowsOf(o) IN
                /\ Cardinality({ k \in 1 .. Len(ws) : ws[k].is_last_row }) = 1
                /\ ws[Len(ws)].is_last_row

\* the edges an InputWindow records in its tasks, as (input, output) pairs
EdgesOf(w) ==
    { e \in (0 .. get_num_node(sc) - 1) \X (w.start_output_index .. w.end_output_index - 1) :
        e[1] \in edge_range(sc, w, e[2]) }

\* the edges of the graph into the output nodes of the outer window o
EdgesInto(o) ==
    { e \in (0 .. get_num_node(sc) - 1) \X (o.start_output_index .. o.end_output_index - 1) :
        e[1] \in sc.csc[e[2] + 1] }

\* C13: the InputWindows yielded for an outer window have its output range
\* and non-empty input ranges in increasing order without overlap; the edge
\* sets they record are pairwise disjoint and, once the cursor has left the
\* outer window, their union is the set of all edges into its output nodes;
\* the graph of sliding_window_test_multi yields 20 InputWindows.
C13_EdgeCoverage ==
    aborted = "none" =>
        /\ \A o \in Outers(sc) :
               LET ws == WindowsOf(o) IN
               /\ \A k \in 1 .. Len(ws) :
                      /\ ws[k].start_output_index = o.start_output_index
                      /\ ws[k].end_output_index = o.end_output_index
                      /\ ws[k].start_input_index < ws[k].end_input_index
                      /\ ws[k].end_input_index <= get_num_node(sc)
               /\ \A k \in 1 .. Len(ws) - 1 :
                      ws[k].end_input_index <= ws[k + 1].start_input_index
               /\ \A k, l \in 1 .. Len(ws) :
                      k < l => EdgesOf(ws[k]) \cap EdgesOf(ws[l]) = {}
               /\ PastOuter(o) =>
                      UNION { EdgesOf(ws[k]) : k \in 1 .. Len(ws) } = EdgesInto(o)
        /\ (sc = ScTestMulti /\ ~ IsSome(iter.current_window)) => Len(hist.yielded) = 20

\* the cursor has walked the graph of sliding_window_test_multi to its end:
\* 20 InputWindows, among them two of one outer window with a gap between
\* their input ranges
C13_Witness ==
    /\ sc = ScTestMulti
    /\ aborted = "none"
    /\ ~ IsSome(iter.current_window)
    /\ Len(hist.yielded) = 20
    /\ \E k \in 1 .. Len(hist.yielded) - 1 :
           /\ hist.yielded[k].task_id.output_id = hist.yielded[k + 1].task_id.output_id
           /\ hist.yielded[k].task_id.layer_id = hist.yielded[k + 1].task_id.layer_id
           /\ hist.yielded[k].end_input_index < hist.yielded[k + 1].start_input_index

\* a is before b in the lexicographic order of (layer_id, output_id, input_id)
LexLess(a, b) ==
    \/ a.layer_id < b.layer_id
    \/ a.layer_id = b.layer_id /\ a.output_id < b.output_id
    \/ a.layer_id = b.layer_id /\ a.output_id = b.output_id /\ a.input_id < b.input_id

\* C14: the WindowIds of the InputWindows taken from the cursor, in the order
\* taken, are strictly increasing in the lexicographic order of
\* (layer_id, output_id, input_id), and no WindowId occurs twice.
C14_WindowIdsIncrease ==
    /\ \A k \in 1 .. Len(hist.yielded) - 1 :
           LexLess(hist.yielded[k].task_id, hist.yielded[k + 1].task_id)
    /\ \A k, l \in 1 .. Len(hist.yielded) :
           hist.yielded[k].task_id = hist.yielded[l].task_id => k = l

\* the cursor has passed a change of input window, of output window and of layer
C14_Witness ==
    /\ aborted = "none"
    /\ \E k \in 1 .. Len(hist.yielded) - 1 :
           LET a == hist.yielded[k].task_id  b == hist.yielded[k + 1].task_id IN
           a.layer_id = b.layer_id /\ a.output_id = b.output_id /\ a.input_id < b.input_id
    /\ \E k \in 1 .. Len(hist.yielded) - 1 :
           LET a == hist.yielded[k].task_id  b == hist.yielded[k + 1].task_id IN
           a.layer_id = b.layer_id /\ a.output_id < b.output_id
    /\ \E k \in 1 .. Len(hist.yielded) - 1 :
           hist.yielded[k].task_id.layer_id < hist.yielded[k + 1].task_id.layer_id

\* every address of the requests in rs is a multiple of the line size
AllAligned(rs) == \A r \in rs : \A k \in 1 .. Len(r.addr_vec) : r.addr_vec[k] % LineSize = 0

\* C15: every address of a request submitted by handle_input_buffer_to_mem or
\* handle_start_writeback is a multiple of 64, every address handed to the
\* oracle is a multiple of 64, and the run never aborts with
\* "addr should be 64 aligned".
C15_AddressesAligned ==
    /\ AllAligned(hist.sent)
    /\ \A k \in 1 .. Len(mem.pending) : mem.pending[k] % LineSize = 0
    /\ aborted # "addr should be 64 aligned"

\* both maps and both queues of the memory interface are empty
InterfaceEmpty ==
    /\ mem_interface.send_queue = << >>
    /\ mem_interface.recv_queue = << >>
    /\ DOMAIN mem_interface.current_waiting_request = {}
    /\ DOMAIN mem_interface.current_waiting_mem_request = {}

\* stand-alone run: only reads were submitted and receive_pop returned each
AllReadsPopped ==
    /\ pc = "mem_interface"
    /\ hist.sent # {}
    /\ \A r \in hist.sent : ~ r.is_write /\ r.id \in Range(hist.popped)

\* C16: when the System is Finished, and in a stand-alone run of the memory
\* interface once every submitted read has been returned by receive_pop,
\* current_waiting_request and current_waiting_mem_request are empty and
\* send_queue and recv_queue are empty.
C16_EmptyAtTermination ==
    /\ state = "Finished" => InterfaceEmpty
    /\ AllReadsPopped => InterfaceEmpty

\* C17: as long as the oracle has returned its lines in the order of their
\* issue, receive_pop returns the ids of read requests in the order in which
\* the requests were passed to send (the k-th send carries input_id k).
C17_PopInSendOrder ==
    (pc = "mem_interface" /\ hist.in_order) =>
        \A i, j \in 1 .. Len(hist.popped) :
            i < j => hist.popped[i].input_id <= hist.popped[j].input_id

\* C18: available() is true exactly when the send queue is shorter than
\* send_size, and a send that is called while the send queue holds send_size
\* or more requests changes no field of the memory interface.
C18_SendOverCapacityHasNoEffect ==
    /\ [](MemInterface_available(mem_interface)
              <=> Len(mem_interface.send_queue) < mem_interface.send_size)
    /\ [][ (/\ pc = "mem_interface"
            /\ hist'.sent # hist.sent
            /\ Len(mem_interface.send_queue) >= mem_interface.send_size)
           => mem_interface' = mem_interface ]_vars

\* the slots of buffer b (named buf) that are not Empty, with their windows
HeldSlots(buf, b) ==
    { sl \in { [ buf |-> buf, slot |-> "current", state |-> b.current_state,
                 window |-> b.current_window ],
               [ buf |-> buf, slot |-> "next", state |-> b.next_state,
                 window |-> b.next_window ] } :
        sl.state # "Empty" /\ IsSome(sl.window) }

AllHeldSlots ==
    HeldSlots("input", input_buffer) \cup HeldSlots("agg", agg_buffer)
        \cup HeldSlots("sparsify", sparsify_buffer) \cup HeldSlots("output", output_buffer)

\* the source slot and the destination slot of a working unit: the MLP reads
\* an agg slot in Mlp and fills a sparsify slot in Writing, the sparsifier
\* reads a sparsify slot in Sparsifying and fills an output slot in Writing
Handover ==
    { { << "agg", "Mlp" >>, << "sparsify", "Writing" >> },
      { << "sparsify", "Sparsifying" >>, << "output", "Writing" >> } }

BothSlotsChange(b, c) == b.current_window # c.current_window /\ b.next_window # c.next_window

AllSetsEmpty(t) == \A i \in DOMAIN Unwrap(t) : Unwrap(t)[i] = {}

\* C20: in Sparse mode the step of handle_finish_mlp that moves the agg
\* buffer's next slot from Mlp to Empty leaves every per-node set of that
\* slot's TempAggResult empty, and whenever handle_start_aggregator starts the
\* first InputWindow of an output window (input_id 0) the partial sets of the
\* agg buffer's current slot are all empty before the aggregation.
C20_PartialSetsCleared ==
    /\ [][ (/\ sc.running_mode = "Sparse"
            /\ pc = "H7" /\ pc' = "cycle"
            /\ agg_buffer.next_state = "Mlp")
           => /\ agg_buffer'.next_state = "Empty"
              /\ AllSetsEmpty(agg_buffer'.next_temp_result) ]_vars
    /\ [][ (/\ sc.running_mode = "Sparse"
            /\ pc = "H4" /\ pc' = "cycle"
            /\ Unwrap(input_buffer.current_window).task_id.input_id = 0)
           => AllSetsEmpty(agg_buffer.current_temp_result) ]_vars

\* the aggregator was started on the first InputWindow of an output window in
\* a slot whose partial sets an earlier output window had filled: the other
\* slot holds the sets of the output window before, and two output windows
\* were aggregated before this one
C20_Witness ==
    /\ sc.running_mode = "Sparse" /\ aborted = "none"
    /\ pc = "cycle" /\ hist.last = "H4"
    /\ input_buffer.current_state = "Reading"
    /\ LET w == Unwrap(input_buffer.current_window) IN
       /\ w.task_id.input_id = 0
       /\ Cardinality({ o \in Outers(sc) :
              \/ o.task_id.layer_id < w.task_id.layer_id
              \/ /\ o.task_id.layer_id = w.task_id.layer_id
                 /\ o.task_id.output_id < w.task_id.output_id }) >= 2
    /\ ~ AllSetsEmpty(agg_buffer.current_temp_result)

\* the aggregator was started in Sparse mode and has not been cycled since
SparseStarted ==
    /\ pc = "aggregator" /\ sc.running_mode = "Sparse"
    /\ IsSome(hist.call) /\ Unwrap(hist.call).ticks = 0

\* the partial set of a node after the sources before x have been added
PartialBefore(s, layer, S0, sources, x) ==
    S0 \cup UNION { get_features(s, layer, y) : y \in { z \in sources : z < x } }

\* the cost of one output node as the claim states it
NodeCost(s, layer, S0, sources) ==
    SumOver([ x \in sources |->
                Cardinality(PartialBefore(s, layer, S0, sources, x))
                    + Cardinality(get_features(s, layer, x)) ],
            sources)

\* C21: sparse aggregation of one output node.  Starting from the partial set
\* S0 and taking the sources of the edge range in increasing order, the cost
\* is the sum over the sources of (size of the partial set before the source
\* + number of features of the source), and the stored set is S0 united with
\* the features of all sources; nodes outside the window keep their sets.
\* For S0 = {0,3,5}, sources {0,1} and the features of the test the cost is
\* 14 and the result {0,2,3,4,5}.
C21_SparseNodeCostAndResult ==
    /\ get_add_cycle_and_result_sparse(ScTestAgg, 0, {0, 3, 5}, {0, 1}, 0)
           = [ cycles |-> 14, result |-> {0, 2, 3, 4, 5} ]
    /\ SparseStarted =>
         LET c == Unwrap(hist.call)
             w == c.window
             layer == w.task_id.layer_id
             S0 == Unwrap(c.temp)
             S1 == Unwrap(agg_buffer.current_temp_result)
             outs == w.start_output_index .. w.end_output_index - 1
         IN /\ \A j \in outs :
                  S1[j] = S0[j] \cup UNION { get_features(sc, layer, x) :
                                              x \in edge_range(sc, w, j) }
            /\ \A j \in DOMAIN S0 \ outs : S1[j] = S0[j]
            /\ (sc.sparse_cores = 1 \/ Cardinality(outs) = 1) =>
                  aggregator.remaining_cycle =
                      SumOver([ j \in outs |->
                                  NodeCost(sc, layer, S0[j], edge_range(sc, w, j)) ], outs)

\* the aggregator was started on output node 0 with the partial set {0,3,5}
\* and the sources {0,1}: cost 14, result {0,2,3,4,5}
C21_Witness ==
    /\ SparseStarted
    /\ LET c == Unwrap(hist.call) IN
       /\ c.window.start_output_index = 0 /\ c.window.end_output_index = 1
       /\ edge_range(sc, c.window, 0) = {0, 1}
       /\ Unwrap(c.temp)[0] = {0, 3, 5}
    /\ aggregator.state = "Working" /\ aggregator.remaining_cycle = 14
    /\ Unwrap(agg_buffer.current_temp_result)[0] = {0, 2, 3, 4, 5}

\* the per-node costs of the window of the recorded start, by output node
StartCosts ==
    LET c == Unwrap(hist.call)
        w == c.window
    IN [ j \in w.start_output_index .. w.end_output_index - 1 |->
           NodeCost(sc, w.task_id.layer_id, Unwrap(c.temp)[j], edge_range(sc, w, j)) ]

\* C22: sparse aggregation of a window.  The per-node costs are given, in
\* output-node order, each to the least loaded of sparse_cores cores and the
\* counter is the largest final load: it is at least the largest single cost
\* and the average load, at most the sum of the costs and at most the
\* average load plus (1 - 1/cores) of the largest cost, the bound of such an
\* assignment; on one core it is the sum, and with as many cores as output
\* nodes it is the largest cost.  Costs 14, 14, 16 on 2 cores give 30.
C22_LeastLoadedCore ==
    /\ SeqMax(AssignCores(<< 0, 0 >>, << 14, 14, 16 >>)) = 30
    /\ SparseStarted =>
         LET costs == StartCosts
             outs == DOMAIN costs
             total == SumOver(costs, outs)
             n == sc.sparse_cores
             r == aggregator.remaining_cycle
         IN /\ \A j \in outs : r >= costs[j]
            /\ r <= total
            /\ n * r >= total
            /\ \E j \in outs : (\A k \in outs : costs[k] <= costs[j])
                                  /\ n * r <= total + (n - 1) * costs[j]
            /\ n = 1 => r = total
            /\ n >= Cardinality(outs) => \E j \in outs : r = costs[j]

\* the aggregator of test_sparse_add: three output nodes with costs 14, 14
\* and 16 on two cores, counter 30
C22_Witness ==
    /\ SparseStarted
    /\ sc.sparse_cores = 2
    /\ LET w == Unwrap(hist.call).window IN
       w.start_output_index = 0 /\ w.end_output_index = 3
    /\ StartCosts = (0 :> 14 @@ 1 :> 14 @@ 2 :> 16)
    /\ aggregator.remaining_cycle = 30

\* the smallest integer not below a / b
CeilDiv(a, b) == (a + b - 1) \div b

\* the number of edges in the edge ranges of window w
NumEdges(w) ==
    LET outs == w.start_output_index .. w.end_output_index - 1 IN
    SumOver([ j \in outs |-> Cardinality(edge_range(sc, w, j)) ], outs)

\* C23: in Dense mode add_task sets the counter to twice the quotient, rounded
\* up, of (edges of the window x input_dim) by (dense_cores x dense_width).
C23_DenseCyclesRoundUp ==
    (/\ pc = "aggregator" /\ sc.running_mode = "Dense"
     /\ IsSome(hist.call) /\ Unwrap(hist.call).ticks = 0) =>
        LET w == Unwrap(hist.call).window IN
        aggregator.remaining_cycle =
            2 * CeilDiv(NumEdges(w) * w.output_window.input_node_dim,
                        sc.dense_cores * sc.dense_width)

\* handle_start_mlp returned true in this step of a Sparse run
SparseMlpStarted == sc.running_mode = "Sparse" /\ pc = "H6" /\ pc' = "cycle"

\* the sum of the sizes of the partial sets of the output nodes of the window
\* in the agg buffer's next slot
WindowTotalAdd ==
    LET w == Unwrap(agg_buffer.next_window)
        t == Unwrap(agg_buffer.next_temp_result)
        outs == w.start_output_index .. w.end_output_index - 1
    IN SumOver([ j \in outs |-> Cardinality(t[j]) ], outs)

\* C24: on the sparse path start_mlp sets the counter to
\* 2 * total_add * output_dim / mlp_sparse_cores, where total_add is the sum
\* of the sizes of the partial sets of exactly the output nodes of the window.
C24_SparseMlpCycles ==
    [][ SparseMlpStarted =>
          mlp'.remaining_cycle =
              (2 * WindowTotalAdd * Unwrap(agg_buffer.next_window).output_node_dim)
                  \div sc.mlp_sparse_cores ]_vars

\* the unit SpecUnit exercises
TheUnit == IF pc = "aggregator" THEN aggregator ELSE mlp

\* C25: a unit started with a count C >= 1 is Finished as soon as the count
\* reaches 0, that is after exactly C calls of cycle() and not before.
C25_FinishedAfterCountCalls ==
    (pc \in { "aggregator", "mlp" } /\ IsSome(hist.call) /\ Unwrap(hist.call).cycles >= 1)
        => (TheUnit.state = "Finished" <=> Unwrap(hist.call).ticks >= Unwrap(hist.call).cycles)

\* handler h returned true in this step
HandlerFired(h) == pc = h /\ pc' = "cycle"

\* C26: each time the aggregator reaches Finished, handle_finish_aggregator
\* fires exactly once before the aggregator can be started again: the
\* aggregator leaves Finished only in that step and Idle only in a step of
\* handle_start_aggregator; the step resets the aggregator to Idle, takes the
\* input buffer's current slot from Reading to Empty, and takes the agg
\* buffer's current slot from Writing to WaitingToMlp exactly when the
\* window's is_last_row is set.
C26_FinishAggregatorHandshake ==
    /\ [][ HandlerFired("H5") =>
             /\ aggregator.state = "Finished" /\ aggregator'.state = "Idle"
             /\ input_buffer.current_state = "Reading"
             /\ input_buffer' = [ input_buffer EXCEPT !.current_state = "Empty" ]
             /\ agg_buffer.current_state = "Writing"
             /\ agg_buffer' =
                  [ agg_buffer EXCEPT !.current_state =
                      IF Unwrap(input_buffer.current_window).is_last_row
                      THEN "WaitingToMlp" ELSE "Writing" ] ]_vars
    /\ [][ (aggregator.state = "Finished" /\ aggregator' # aggregator)
               => HandlerFired("H5") ]_vars
    /\ [][ (aggregator.state = "Idle" /\ aggregator' # aggregator)
               => (HandlerFired("H4") /\ aggregator'.state = "Working") ]_vars
    /\ [][ (aggregator.state = "Working" /\ aggregator'.state # "Working")
               => (pc = "cycle" /\ aggregator'.state = "Finished") ]_vars

\* handle_finish_aggregator has just fired on a window that is not the last
\* row of its output window: the agg buffer keeps accumulating
C26_Witness ==
    /\ pc = "cycle" /\ aborted = "none" /\ hist.last = "H5"
    /\ aggregator.state = "Idle"
    /\ input_buffer.current_state = "Empty"
    /\ IsSome(input_buffer.current_window)
    /\ ~ Unwrap(input_buffer.current_window).is_last_row
    /\ agg_buffer.current_state = "Writing"

\* C27: handle_start_sparsify starts the sparsifier with a cost of 10 cycles
\* for a window of a non-final layer and of 1 cycle for a window of the final
\* layer; handle_finish_sparsify never fires while the sparsifier is Working
\* and fires exactly once after it has returned to Idle, taking the sparsify
\* buffer's next slot from Sparsifying to Empty and the output buffer's
\* current slot from Writing to WaitingToWriteBack; handle_start_sparsify
\* cannot fire again before that.
C27_SparsifyHandshake ==
    /\ [][ HandlerFired("H8") =>
             /\ sparsifier.state = "Idle" /\ sparsifier'.state = "Working"
             /\ sparsifier'.remaining_cycle =
                  IF Unwrap(sparsify_buffer.next_window).task_id.layer_id
                         = gcn_layer_num(sc) - 1
                  THEN 1 ELSE 10
             /\ sparsify_buffer.next_state = "WaitingToSparsify"
             /\ sparsify_buffer'.next_state = "Sparsifying" ]_vars
    /\ [][ HandlerFired("H9") =>
             /\ sparsifier.state = "Idle" /\ sparsifier' = sparsifier
             /\ sparsify_buffer.next_state = "Sparsifying"
             /\ sparsify_buffer'.next_state = "Empty"
             /\ output_buffer.current_state = "Writing"
             /\ output_buffer'.current_state = "WaitingToWriteBack" ]_vars
    /\ [][ (sparsify_buffer.next_state = "Sparsifying"
               /\ sparsify_buffer'.next_state # "Sparsifying")
               => HandlerFired("H9") ]_vars
    /\ [][ (sparsify_buffer.next_state # "Sparsifying"
               /\ sparsify_buffer'.next_state = "Sparsifying")
               => HandlerFired("H8") ]_vars
    /\ [][ (sparsifier.state = "Working" /\ sparsifier'.state # "Working")
               => (pc = "cycle" /\ sparsifier'.state = "Idle"
                     /\ sparsify_buffer.next_state = "Sparsifying") ]_vars

\* handle_finish_sparsify has just fired for a window of a non-final layer
C27_Witness ==
    /\ pc = "cycle" /\ aborted = "none" /\ hist.last = "H9"
    /\ sparsifier.state = "Idle"
    /\ sparsify_buffer.next_state = "Empty"
    /\ output_buffer.current_state = "WaitingToWriteBack"
    /\ Unwrap(output_buffer.current_window).task_id.layer_id < gcn_layer_num(sc) - 1

\* the number of output nodes that fit in half the aggregator buffer when a
\* node takes 4 * d bytes, d being the feature size for layer 0 and the
\* hidden size of the layer before for a later layer
NodesInHalfAggBuffer(s, layer) ==
    (s.agg_buffer_size \div 2)
        \div (4 * (IF layer = 0 THEN s.feature_size ELSE s.gcn_hidden_size[layer]))

\* C28: every tile of the outer iterator is
\* [cur_start, min(cur_start + output_size, N)) with cur_start the end of the
\* tile before (0 for the first) and output_size = (agg_buffer_size / 2) /
\* (4 * d), d = the feature size for layer 0 and gcn_hidden_size[layer - 1]
\* for later layers.
C28_TilesFillHalfAggBuffer ==
    pc = "window_cursor" =>
        \A k \in 1 .. Len(hist.yielded) :
            LET w == hist.yielded[k]
                size == NodesInHalfAggBuffer(sc, w.task_id.layer_id)
            IN /\ w.start_output_index = w.task_id.output_id * size
               /\ w.end_output_index = Min(w.start_output_index + size, get_num_node(sc))

\* the bytes the rows [from, to) of the features of a layer take in the input
\* buffer
RowBytes(s, layer, from, to) ==
    SumOver([ i \in from .. to - 1 |-> 4 * Cardinality(get_features(s, layer, i)) ],
            from .. to - 1)

\* the rows at or after the start of the inner iterator it that have an edge
\* into its output range
RowsLeft(s, it) ==
    { i \in it.current_window_start_input_index .. get_num_node(s) - 1 :
        ~ is_row_range_empty(s, i, it.start_output_index, it.end_output_index) }

\* the next row of the inner iterator it that has an edge into its output
\* range does not fit in half the input buffer on its own
FirstRowTooLarge(s, it) ==
    /\ RowsLeft(s, it) # {}
    /\ LET first == CHOOSE i \in RowsLeft(s, it) : \A j \in RowsLeft(s, it) : i <= j
       IN RowBytes(s, it.task_id.layer_id, first, first + 1) > s.input_buffer_size \div 2

\* C29: the rows of every InputWindow emitted take at most half the input
\* buffer, and its first and its last row both have an edge into the output
\* range; when the first row with such an edge does not fit on its own, the
\* iterator aborts instead of emitting a window.
C29_InputWindowFits ==
    /\ [](pc = "window_cursor" =>
            \A k \in 1 .. Len(hist.yielded) :
                LET w == hist.yielded[k] IN
                /\ w.start_input_index < w.end_input_index
                /\ RowBytes(sc, w.task_id.layer_id, w.start_input_index, w.end_input_index)
                       <= sc.input_buffer_size \div 2
                /\ ~ is_row_range_empty(sc, w.start_input_index,
                                        w.start_output_index, w.end_output_index)
                /\ ~ is_row_range_empty(sc, w.end_input_index - 1,
                                        w.start_output_index, w.end_output_index))
    /\ [][ (pc = "window_cursor" /\ FirstRowTooLarge(sc, iter.current_input_iter))
               => (aborted' = "x_len is 0" /\ iter'.current_window = None
                     /\ iter'.current_input_iter = iter.current_input_iter) ]_vars

\* the cursor has emitted a window and has aborted on a later row that does
\* not fit in half the input buffer
C29_Witness ==
    /\ pc = "window_cursor" /\ aborted = "x_len is 0"
    /\ FirstRowTooLarge(sc, iter.current_input_iter)
    /\ Len(hist.yielded) >= 1

\* the windows a and b belong to the same outer iteration
SameOuterIteration(a, b) ==
    /\ a.task_id.layer_id = b.task_id.layer_id
    /\ a.task_id.output_id = b.task_id.output_id

\* C30: all InputWindows of one outer iteration carry one and the same
\* OutputWindow value (output range, dimensions, flags and identifier); its
\* final_window is true exactly for the tile that ends at N, and its
\* final_layer is the flag the caller passed for the layer.
C30_OneOutputWindowPerOuterIteration ==
    pc = "window_cursor" =>
        \A j, k \in 1 .. Len(hist.yielded) :
            LET a == hist.yielded[j]
                b == hist.yielded[k]
            IN /\ SameOuterIteration(a, b) => a.output_window = b.output_window
               /\ a.output_window.final_window
                      <=> (a.output_window.end_output_index = get_num_node(sc))
               /\ a.output_window.final_layer
                      <=> (a.task_id.layer_id = gcn_layer_num(sc) - 1)

\* the number of entries of the sequence q that equal x
Occurrences(q, x) == Cardinality({ i \in 1 .. Len(q) : q[i] = x })

\* the pairs (request, address) the outstanding sets of the requests hold
WaitingPairs(mi) ==
    { p \in (DOMAIN mi.current_waiting_request) \X (DOMAIN mi.current_waiting_mem_request) :
        p[2] \in mi.current_waiting_request[p[1]] }

\* C31: at any time at most one read of an address is outstanding at the
\* oracle, however many requests name it: the addresses outstanding at the
\* oracle are the keys of current_waiting_mem_request, each once; a request
\* that names an outstanding address is attached to it; and an address that
\* has returned is in the outstanding set of no request.
C31_ReadCoalescing ==
    pc = "mem_interface" =>
        /\ \A a \in Range(mem.pending) : Occurrences(mem.pending, a) = 1
        /\ Range(mem.pending) = DOMAIN mem_interface.current_waiting_mem_request
        /\ \A id \in DOMAIN mem_interface.current_waiting_request :
               mem_interface.current_waiting_request[id] \subseteq Range(mem.pending)
        /\ WaitingPairs(mem_interface) = hist.registered \ hist.done

\* two requests are attached to one outstanding read
C31_Witness ==
    /\ pc = "mem_interface" /\ aborted = "none"
    /\ \E a \in Range(mem.pending) :
          /\ Occurrences(mem.pending, a) = 1
          /\ Cardinality(mem_interface.current_waiting_mem_request[a]) = 2

\* the addresses of request q the oracle has been handed, in issue order
IssuedOf(q) ==
    LET mine == SelectSeq(hist.issued, LAMBDA e : e.id = q.id)
    IN [ k \in 1 .. Len(mine) |-> mine[k].addr ]

\* the positions of request q in the send queue
QueuePositions(q) ==
    { k \in 1 .. Len(mem_interface.send_queue) : mem_interface.send_queue[k].id = q.id }

\* C32: the addresses of a write request are issued to the oracle one at a
\* time while it is at the front of the send queue; an address the oracle
\* does not accept stays in the request; every address is issued exactly
\* once, the request leaves the queue only when all are issued, and no
\* address of a later request is issued before that.
C32_WriteIssuedOnceInQueueOrder ==
    pc = "mem_interface" =>
        /\ \A q \in hist.sent :
              q.is_write =>
                 /\ \A a \in Range(q.addr_vec) : Occurrences(IssuedOf(q), a) <= 1
                 /\ Range(IssuedOf(q)) \subseteq Range(q.addr_vec)
                 /\ \A k \in QueuePositions(q) :
                       /\ mem_interface.send_queue[k].addr_vec
                              = SubSeq(q.addr_vec, 1, Len(q.addr_vec) - Len(IssuedOf(q)))
                       /\ k > 1 => IssuedOf(q) = << >>
                 /\ (QueuePositions(q) = {} /\ aborted = "none")
                       => Range(IssuedOf(q)) = Range(q.addr_vec)
        /\ \A i, j \in 1 .. Len(hist.issued) :
              i < j => hist.issued[i].id.input_id <= hist.issued[j].id.input_id

\* a write request of two addresses has had one address accepted and one
\* refused, and waits at the front with a request behind it
C32_Witness ==
    /\ pc = "mem_interface" /\ aborted = "none"
    /\ Len(mem_interface.send_queue) >= 2
    /\ \E q \in hist.sent :
          /\ q.is_write /\ Len(q.addr_vec) = 2
          /\ mem_interface.send_queue[1].id = q.id
          /\ Len(IssuedOf(q)) = 1

\* C33: the two in-flight maps are mutually consistent: address a is in
\* current_waiting_request[id] iff id is in current_waiting_mem_request[a],
\* and neither map has a key mapped to the empty set.
C33_MapsConsistent ==
    pc = "mem_interface" =>
        LET cwr == mem_interface.current_waiting_request
            cwmr == mem_interface.current_waiting_mem_request
        IN /\ \A id \in DOMAIN cwr : \A a \in cwr[id] : a \in DOMAIN cwmr /\ id \in cwmr[a]
           /\ \A a \in DOMAIN cwmr : \A id \in cwmr[a] : id \in DOMAIN cwr /\ a \in cwr[id]
           /\ \A id \in DOMAIN cwr : cwr[id] # {}
           /\ \A a \in DOMAIN cwmr : cwmr[a] # {}

\* one request waits for two addresses and one address is waited for by two
\* requests
C33_Witness ==
    /\ pc = "mem_interface" /\ aborted = "none"
    /\ \E id \in DOMAIN mem_interface.current_waiting_request :
          Cardinality(mem_interface.current_waiting_request[id]) = 2
    /\ \E a \in DOMAIN mem_interface.current_waiting_mem_request :
          Cardinality(mem_interface.current_waiting_mem_request[a]) = 2

\* C34: after any sequence of send, cycle, receive and receive_pop calls the
\* receive queue holds at most recv_size requests, also when one returned
\* address completes several coalesced requests in the same cycle.
C34_RecvQueueBounded ==
    pc = "mem_interface" => Len(mem_interface.recv_queue) <= mem_interface.recv_size

\* the identifiers of the input windows of the System scenarios
ScenarioWindowIds == UNION { { w.task_id : w \in UnitWindows(s) } : s \in Scenarios }

\* a slot of the input buffer is in state st and holds the window id
InputSlotIs(st, id) ==
    \/ /\ input_buffer.current_state = st /\ IsSome(input_buffer.current_window)
       /\ Unwrap(input_buffer.current_window).task_id = id
    \/ /\ input_buffer.next_state = st /\ IsSome(input_buffer.next_window)
       /\ Unwrap(input_buffer.next_window).task_id = id

\* C35: every input-buffer slot that handle_input_buffer_to_mem moves to
\* Loading is later moved to Ready by handle_mem_to_input_buffer, for every
\* window, also one whose address range is empty.
C35_LoadingLeadsToReady ==
    \A id \in ScenarioWindowIds : InputSlotIs("Loading", id) ~> InputSlotIs("Ready", id)

\* the address vector the current-slot branch of handle_input_buffer_to_mem
\* computes for a window
CurrentSlotAddrVec(s, window) ==
    IF s.running_mode = "Dense" THEN dense_addr_vec(s, window)
    ELSE sparse_addr_vec(s, window)

\* C36: in every running mode the address vector handle_input_buffer_to_mem
\* submits for a window is the same whether the window sits in the current
\* slot or in the next slot: it is the vector of the current-slot branch.
C36_SameAddressesInBothSlots ==
    [][ HandlerFired("H2") =>
          LET req == mem_interface'.send_queue[Len(mem_interface'.send_queue)]
              window == IF input_buffer.current_state = "WaitingToLoad"
                        THEN Unwrap(input_buffer.current_window)
                        ELSE Unwrap(input_buffer.next_window)
          IN req.id = window.task_id /\ req.addr_vec = CurrentSlotAddrVec(sc, window) ]_vars

\* the identifiers of the InputWindows the cursor of the System emits from
\* the iterator state it on, in order
RECURSIVE EmittedFrom(_, _, _)
EmittedFrom(s, it, st) ==
    IF ~ IsSome(it.current_window) THEN << >>
    ELSE LET m == move_to_next_window(s, [ it EXCEPT !.current_window = None ], st)
         IN << Unwrap(it.current_window).task_id >>
                \o (IF m.panic # "none" THEN << >> ELSE EmittedFrom(s, m.iter, m.state))

Emitted(s) == EmittedFrom(s, System_new(s).iter, "Working")

\* the output window of a window identifier
OuterId(id) == << id.layer_id, id.output_id >>

\* the events of the compute pipeline at which stage n of an output window
\* is passed: the last aggregation finished, then H6 .. H10
Stages == << "H5", "H6", "H7", "H8", "H9", "H10" >>

IsStage(e, n) == e.h = Stages[n] /\ (n = 1 => e.last)

\* the identifiers of the events of handler h so far, in order
EventsOf(h) ==
    LET mine == SelectSeq(hist.pipeline, LAMBDA e : e.h = h)
    IN [ k \in 1 .. Len(mine) |-> mine[k].id ]

\* C37: InputWindows enter the aggregator in the order the iterators emitted
\* them, each once; output windows pass the MLP start, the sparsify start
\* and the write back in increasing (layer_id, output_id) order, each once;
\* and for one output window the last finished aggregation, H6, H7, H8, H9
\* and H10 happen in this order.
C37_InOrderPipeline ==
    pc \in { "cycle", "idle" } \cup Range(Handlers) =>
        LET p == hist.pipeline IN
        /\ Len(EventsOf("H4")) <= Len(Emitted(sc))
        /\ EventsOf("H4") = SubSeq(Emitted(sc), 1, Len(EventsOf("H4")))
        /\ \A n \in 1 .. Len(Stages) : \A i, j \in 1 .. Len(p) :
              (i < j /\ IsStage(p[i], n) /\ IsStage(p[j], n))
                  => LexLess([ p[i].id EXCEPT !.input_id = 0 ],
                             [ p[j].id EXCEPT !.input_id = 0 ])
        /\ \A n \in 2 .. Len(Stages) : \A j \in 1 .. Len(p) :
              IsStage(p[j], n)
                  => \E i \in 1 .. j - 1 :
                        IsStage(p[i], n - 1) /\ OuterId(p[i].id) = OuterId(p[j].id)
        /\ finished =>
              \A h \in { "H4", "H6", "H8", "H10" } :
                  { OuterId(id) : id \in Range(EventsOf(h)) }
                      = { OuterId(id) : id \in Range(Emitted(sc)) }
        /\ finished => EventsOf("H4") = Emitted(sc)

\* a run of two layers has finished: four output windows, one of them
\* aggregated from two InputWindows, have passed every stage
C37_Witness ==
    /\ finished /\ aborted = "none"
    /\ Len(EventsOf("H10")) = 4
    /\ Len(EventsOf("H4")) > 4

\* the unit u is Working or Finished
Busy(u) == u.state \in { "Working", "Finished" }

\* C38: at every cycle boundary the aggregator is Working or Finished iff the
\* input buffer's current slot is Reading, and then the agg buffer's current
\* slot is Writing; the MLP is Working or Finished iff the agg buffer's next
\* slot is Mlp iff the sparsify buffer's current slot is Writing; the
\* sparsify buffer's next slot is Sparsifying iff the output buffer's current
\* slot is Writing, and the sparsifier is Working only then.
C38_UnitsMatchSlots ==
    pc = "cycle" =>
        /\ Busy(aggregator) <=> input_buffer.current_state = "Reading"
        /\ Busy(aggregator) => agg_buffer.current_state = "Writing"
        /\ Busy(mlp) <=> agg_buffer.next_state = "Mlp"
        /\ Busy(mlp) <=> sparsify_buffer.current_state = "Writing"
        /\ sparsify_buffer.next_state = "Sparsifying"
              <=> output_buffer.current_state = "Writing"
        /\ sparsifier.state = "Working" => sparsify_buffer.next_state = "Sparsifying"

\* the aggregator and the MLP work at the same time, each between its two
\* slots
C38_Witness ==
    /\ pc = "cycle" /\ aborted = "none"
    /\ Busy(aggregator) /\ Busy(mlp)
    /\ input_buffer.current_state = "Reading"
    /\ agg_buffer.current_state = "Writing"
    /\ agg_buffer.next_state = "Mlp"
    /\ sparsify_buffer.current_state = "Writing"

\* C39: whenever handle_start_aggregator fires while the agg buffer's current
\* slot is already Writing, the InputWindow started has the layer_id, the
\* output_id and the output node range of the window the slot holds, and the
\* partial sets accumulated in the slot belong to output nodes of that range:
\* add_task never replaces the window of an unfinished tile by another tile.
C39_SameTileWhileWriting ==
    [][ (HandlerFired("H4") /\ agg_buffer.current_state = "Writing") =>
          LET w == Unwrap(input_buffer.current_window)
              held == Unwrap(agg_buffer.current_window)
              now == Unwrap(agg_buffer'.current_window)
          IN /\ OuterId(w.task_id) = OuterId(held.task_id)
             /\ w.start_output_index = held.start_output_index
             /\ w.end_output_index = held.end_output_index
             /\ [ now EXCEPT !.task_id.input_id = 0 ] = [ held EXCEPT !.task_id.input_id = 0 ]
             /\ IsSome(agg_buffer.current_temp_result) =>
                   \A j \in DOMAIN Unwrap(agg_buffer.current_temp_result) :
                       Unwrap(agg_buffer.current_temp_result)[j] # {}
                           => (held.start_output_index <= j /\ j < held.end_output_index)
        ]_vars

\* the second InputWindow of an output tile has been started on a slot that
\* holds the partial sets of the first
C39_Witness ==
    /\ pc = "cycle" /\ aborted = "none" /\ hist.last = "H4"
    /\ sc.running_mode = "Sparse"
    /\ aggregator.state = "Working"
    /\ agg_buffer.current_state = "Writing"
    /\ Unwrap(input_buffer.current_window).task_id.input_id = 1
    /\ Unwrap(agg_buffer.current_window).task_id.input_id = 1

\* the cursor has emitted every InputWindow of the layer of the k-th window
\* it yielded, and that window is the last of the layer
LastOfLayer(k) ==
    IF k < Len(hist.yielded)
    THEN hist.yielded[k + 1].task_id.layer_id # hist.yielded[k].task_id.layer_id
    ELSE /\ aborted = "none"
         /\ \/ ~ IsSome(iter.current_window)
            \/ Unwrap(iter.current_window).task_id.layer_id
                   # hist.yielded[k].task_id.layer_id

\* C40: for every layer and every graph, the last InputWindow the iterators
\* emit for the layer carries output_window.final_window = true, also when
\* the output nodes of the layer's last output tile have no in-edges.
C40_LastWindowOfLayerIsFinal ==
    pc = "window_cursor" =>
        \A k \in 1 .. Len(hist.yielded) :
            LastOfLayer(k) => hist.yielded[k].output_window.final_window

=============================================================================
